---- MODULE Spec2Model ----
(***************************************************************************)
(* A model of the execution substrate of mentat: the concurrency-bounded   *)
(* runner (utils/concurrency.ts and the local copies of generate-lessons   *)
(* and extract-subsections), the retry policy withRetry, and the unit      *)
(* handler generateLesson.                                                 *)
(*                                                                         *)
(* JavaScript runs every continuation to completion: an action of this     *)
(* model is one such continuation, from the event that resumes it to the   *)
(* next await.                                                             *)
(***************************************************************************)
EXTENDS Integers, Sequences, FiniteSets, TLC

VARIABLES
    variant,      \* "utils": utils/concurrency.ts; "local": the scripts' copy
    mapperKind,   \* "opaque": any async mapper; "lesson": generateLesson
    items,        \* the units handed to mapWithConcurrency (subsections)
    concurrency,  \* the concurrency argument, a JavaScript number
    maxRetries,   \* MAX_RETRIES, a JavaScript number
    mainPc,       \* mapWithConcurrency: "idle", "join", "resolved", "rejected"
    cursor,       \* the shared cursor
    results,      \* the results array, 0-based; EmptySlot marks a hole
    workers,      \* the worker closures, 0-based
    invoked,      \* history: how often the mapper was invoked with index i
    passed,       \* history: the item the mapper received for index i
    returned,     \* history: the value the mapper resolved to for index i
    order,        \* history: the indices in the order their mapper calls resolved
    ended,        \* history: how the withRetry call of unit i ended
    rt,           \* the withRetry call of the stand-alone retry specification
    script,       \* the behaviour of the operation given to that call
    config,       \* the RuntimeConfig of AgentRuntime: mode and retryCount
    request,      \* the JsonAgentRequest of the stand-alone runJson call
    agentCall,    \* a runJson call made alone or by a one-call stage
    runs,         \* the runJson calls of generateAll, by unit index
    orch,         \* CourseOrchestrator.run for one corpus
    disk,         \* the checkpoint file lessons.json
    main,         \* main of generate-lessons
    course,       \* the course structure main reads
    hist,         \* history of main: what it loaded, decided and saved
    px            \* an application of a parser function: input and result

vars == <<variant, mapperKind, items, concurrency, maxRetries, mainPc, cursor,
          results, workers, invoked, passed, returned, order, ended, rt,
          script, config, request, agentCall, runs, orch, disk, main,
          course, hist, px>>

runnerVars == <<variant, mapperKind, items, concurrency, maxRetries, mainPc,
                cursor, results, workers, invoked, passed, returned, order,
                ended>>

agentVars == <<config, request, agentCall, runs, orch>>
checkpointVars == <<disk, main, course, hist>>
parseVars == <<px>>

(***************************************************************************)
(* Bounds of the model.                                                    *)
(***************************************************************************)
MaxItems == 3
MaxLessonItems == 2
MaxScript == 3
MaxSpecifications == 2
MaxFaults == 3
MaxChapters == 2
MaxRuns == 2
MaxUnits == 4
MaxElements == 2

(***************************************************************************)
(* JavaScript numbers.  A finite number is kept in tenths, so that 0.5 and *)
(* 2.7 are values; NaN and the infinities are kinds of their own.          *)
(***************************************************************************)
Num(t) == [kind |-> "fin", tenths |-> t]
Int10(n) == Num(10 * n)
NaN == [kind |-> "nan", tenths |-> 0]
PosInf == [kind |-> "inf", tenths |-> 0]
NegInf == [kind |-> "ninf", tenths |-> 0]

NumberIsFinite(x) == x.kind = "fin"

\* x <= n and x < n for a number x and an integer n; false for NaN
NumLeqInt(x, n) ==
    \/ x.kind = "ninf"
    \/ x.kind = "fin" /\ x.tenths <= 10 * n
NumLtInt(x, n) ==
    \/ x.kind = "ninf"
    \/ x.kind = "fin" /\ x.tenths < 10 * n
IntLeqNum(n, x) ==
    \/ x.kind = "inf"
    \/ x.kind = "fin" /\ 10 * n <= x.tenths
IntLtNum(n, x) ==
    \/ x.kind = "inf"
    \/ x.kind = "fin" /\ 10 * n < x.tenths

MathFloor(x) ==
    IF x.kind = "fin" THEN Num((x.tenths \div 10) * 10) ELSE x

\* Math.min(x, n) for an integer n
MathMin(x, n) ==
    CASE x.kind = "nan" -> NaN
      [] x.kind = "inf" -> Int10(n)
      [] x.kind = "ninf" -> NegInf
      [] OTHER -> IF x.tenths <= 10 * n THEN x ELSE Int10(n)

\* ToLength of Array.from({ length: x }): NaN and negatives give 0, a
\* fraction is truncated
ToLength(x) ==
    CASE x.kind = "nan" -> 0
      [] x.kind = "ninf" -> 0
      [] x.kind = "inf" -> 2147483647   \* saturated; Math.min never yields it
      [] OTHER -> IF x.tenths <= 0 THEN 0 ELSE x.tenths \div 10

(***************************************************************************)
(* parseInt(s, 10) on a string given as its sequence of characters.        *)
(***************************************************************************)
Digits == <<"0", "1", "2", "3", "4", "5", "6", "7", "8", "9">>
IsDigit(c) == \E d \in 1..10 : Digits[d] = c
DigitValue(c) == (CHOOSE d \in 1..10 : Digits[d] = c) - 1

RECURSIVE SkipSpaces(_)
SkipSpaces(s) ==
    IF s # <<>> /\ Head(s) = " " THEN SkipSpaces(Tail(s)) ELSE s

RECURSIVE DigitPrefix(_, _)
DigitPrefix(s, acc) ==
    IF s # <<>> /\ IsDigit(Head(s))
    THEN DigitPrefix(Tail(s), 10 * acc + DigitValue(Head(s)))
    ELSE acc

parseInt10(str) ==
    LET s == SkipSpaces(str)
        neg == s # <<>> /\ Head(s) = "-"
        body == IF s # <<>> /\ Head(s) \in {"-", "+"} THEN Tail(s) ELSE s
    IN IF body = <<>> \/ ~IsDigit(Head(body))
       THEN NaN
       ELSE Int10((IF neg THEN -1 ELSE 1) * DigitPrefix(body, 0))

\* process.env.NAME || fallback: an unset or empty variable gives the fallback
Unset == <<>>
EnvOr(env, fallback) == IF env = <<>> THEN fallback ELSE env

\* generate-lessons.ts: const CONCURRENCY = parseInt(env || "1", 10)
CONCURRENCY(env) == parseInt10(EnvOr(env, <<"1">>))
\* generate-lessons.ts: const MAX_RETRIES = parseInt(env || "6", 10)
MAX_RETRIES(env) == parseInt10(EnvOr(env, <<"6">>))

INITIAL_BACKOFF_MS == 5000
INTER_REQUEST_DELAY_MS == 2000
JITTER_RANGE_MS == 1000

(***************************************************************************)
(* Strings the code inspects are sequences of characters.                  *)
(***************************************************************************)
UpperCase == <<"A", "B", "C", "D", "E", "F", "G", "H", "I", "J", "K", "L", "M", "N", "O", "P", "Q", "R", "S", "T", "U", "V", "W", "X", "Y", "Z">>
LowerCase == <<"a", "b", "c", "d", "e", "f", "g", "h", "i", "j", "k", "l", "m", "n", "o", "p", "q", "r", "s", "t", "u", "v", "w", "x", "y", "z">>
LowerChar(c) ==
    IF \E i \in 1..26 : UpperCase[i] = c
    THEN LowerCase[CHOOSE i \in 1..26 : UpperCase[i] = c]
    ELSE c
toLowerCase(s) == [i \in 1..Len(s) |-> LowerChar(s[i])]
includes(s, t) ==
    \E i \in 1..(Len(s) - Len(t) + 1) : SubSeq(s, i, i + Len(t) - 1) = t

(***************************************************************************)
(* What the operation given to withRetry can do on one invocation: resolve *)
(* with a response, or reject with a thrown value.  kind "error" is an     *)
(* instance of Error with message msg; kind "raw" is a thrown value that   *)
(* is not an Error (a string); body is the response text of an "ok".       *)
(***************************************************************************)
Undefined == [kind |-> "undefined", msg |-> <<>>, body |-> "-"]
Ok(b) == [kind |-> "ok", msg |-> <<>>, body |-> b]
Err(m) == [kind |-> "error", msg |-> m, body |-> "-"]
Raw(m) == [kind |-> "raw", msg |-> m, body |-> "-"]

MsgRateLimit == <<"R", "a", "t", "e", " ", "L", "i", "m", "i", "t", " ", "h", "i", "t">>
Msg429 == <<"H", "T", "T", "P", " ", "4", "2", "9">>
MsgQuota == <<"Q", "U", "O", "T", "A", " ", "u", "s", "e", "d">>
MsgTimeout == <<"a", "b", "o", "r", "t", "e", "d", " ", "d", "u", "e", " ", "t", "o", " ", "t", "i", "m", "e", "o", "u", "t">>
MsgBadRequest == <<"b", "a", "d", " ", "r", "e", "q", "u", "e", "s", "t">>

ErrRateLimit == Err(MsgRateLimit)
Err429 == Err(Msg429)
ErrQuota == Err(MsgQuota)
ErrTimeout == Err(MsgTimeout)
ErrBadRequest == Err(MsgBadRequest)
Raw429 == Raw(Msg429)

RateLimitOutcomes == {ErrRateLimit, Err429, ErrQuota}
FailureOutcomes == RateLimitOutcomes \cup {ErrTimeout, ErrBadRequest, Raw429}

isRateLimitErrorCaseSensitive(err) ==
    IF err.kind # "error" THEN FALSE
    ELSE LET msg == err.msg
         IN \/ includes(msg, <<"r", "a", "t", "e", " ", "l", "i", "m", "i", "t">>)
            \/ includes(msg, <<"4", "2", "9">>)
            \/ includes(msg, <<"t", "o", "o", " ", "m", "a", "n", "y", " ", "r", "e", "q", "u", "e", "s", "t", "s">>)
            \/ includes(msg, <<"f", "r", "e", "e", " ", "c", "r", "e", "d", "i", "t", "s", " ", "t", "e", "m", "p", "o", "r", "a", "r", "i", "l", "y">>)
            \/ includes(msg, <<"r", "e", "s", "o", "u", "r", "c", "e", " ", "e", "x", "h", "a", "u", "s", "t", "e", "d">>)
            \/ includes(msg, <<"q", "u", "o", "t", "a">>)

\* generate-lessons.ts isRateLimitError (extract-subsections.ts has the same)
isRateLimitError(err) ==
    IF err.kind # "error" THEN FALSE
    ELSE LET msg == toLowerCase(err.msg)
         IN \/ includes(msg, <<"r", "a", "t", "e", " ", "l", "i", "m", "i", "t">>)
            \/ includes(msg, <<"4", "2", "9">>)
            \/ includes(msg, <<"t", "o", "o", " ", "m", "a", "n", "y", " ", "r", "e", "q", "u", "e", "s", "t", "s">>)
            \/ includes(msg, <<"f", "r", "e", "e", " ", "c", "r", "e", "d", "i", "t", "s", " ", "t", "e", "m", "p", "o", "r", "a", "r", "i", "l", "y">>)
            \/ includes(msg, <<"r", "e", "s", "o", "u", "r", "c", "e", " ", "e", "x", "h", "a", "u", "s", "t", "e", "d">>)
            \/ includes(msg, <<"q", "u", "o", "t", "a">>)

(***************************************************************************)
(* Texts.  A text is its sequence of characters; the characters that have  *)
(* no printable form carry a name.                                         *)
(***************************************************************************)
DQ == "\""
BSL == "\\"
LF == "<LF>"
CR == "<CR>"
TAB == "<TAB>"
BSP == "<BS>"
FF == "<FF>"

WhiteSpace == {" ", LF, CR, TAB, FF}
ControlChars == {LF, CR, TAB, BSP, FF}

\* String.prototype.trim
RECURSIVE trimStart(_)
trimStart(s) ==
    IF s # <<>> /\ Head(s) \in WhiteSpace THEN trimStart(Tail(s)) ELSE s
RECURSIVE trimEnd(_)
trimEnd(s) ==
    IF s # <<>> /\ s[Len(s)] \in WhiteSpace
    THEN trimEnd(SubSeq(s, 1, Len(s) - 1))
    ELSE s
trim(s) == trimEnd(trimStart(s))

\* the positions (1-based) at which t occurs in s
Occurrences(s, t) ==
    {i \in 1..(Len(s) - Len(t) + 1) : SubSeq(s, i, i + Len(t) - 1) = t}
SetMin(S) == CHOOSE x \in S : \A y \in S : x <= y
SetMax(S) == CHOOSE x \in S : \A y \in S : y <= x

\* indexOf and lastIndexOf, 1-based; 0 stands for the -1 of JavaScript
MinOrNone(S) == IF S = {} THEN 0 ELSE SetMin(S)
MaxOrNone(S) == IF S = {} THEN 0 ELSE SetMax(S)
indexOfFrom(s, t, from) == MinOrNone({i \in Occurrences(s, t) : i >= from})
indexOf(s, t) == indexOfFrom(s, t, 1)
lastIndexOf(s, t) == MaxOrNone(Occurrences(s, t))

(***************************************************************************)
(* JSON values.  A value is the sequence of its tokens: "<obj>" ... "</obj>" *)
(* around the members, each a key "<key>" chars "</key>" and a value;      *)
(* "<arr>" ... "</arr>" around the elements; "<str>" chars "</str>";       *)
(* "<null>", "<true>", "<false>"; "<num>" digits "</num>".  Two values are *)
(* equal when their token sequences are.                                   *)
(***************************************************************************)
JsonWhiteSpace == {" ", LF, CR, TAB}
HexDigits ==
    {"0", "1", "2", "3", "4", "5", "6", "7", "8", "9",
     "a", "b", "c", "d", "e", "f", "A", "B", "C", "D", "E", "F"}
SimpleEscapes == {DQ, BSL, "/", "b", "f", "n", "r", "t"}

EscapeDecode(c) ==
    CASE c = "b" -> BSP
      [] c = "f" -> FF
      [] c = "n" -> LF
      [] c = "r" -> CR
      [] c = "t" -> TAB
      [] OTHER -> c

NoParse == [ok |-> FALSE, pos |-> 0, toks |-> <<>>]
ParsedTo(p, t) == [ok |-> TRUE, pos |-> p, toks |-> t]

RECURSIVE SkipWs(_, _)
SkipWs(s, i) ==
    IF i <= Len(s) /\ s[i] \in JsonWhiteSpace THEN SkipWs(s, i + 1) ELSE i

\* the characters of a string literal from position i, after its opening
\* quote, up to the closing quote
RECURSIVE JsonChars(_, _, _)
JsonChars(s, i, acc) ==
    IF i > Len(s) THEN NoParse
    ELSE IF s[i] = DQ THEN ParsedTo(i + 1, acc)
    ELSE IF s[i] \in ControlChars THEN NoParse
    ELSE IF s[i] # BSL THEN JsonChars(s, i + 1, Append(acc, s[i]))
    ELSE IF i + 1 > Len(s) THEN NoParse
    ELSE IF s[i + 1] \in SimpleEscapes
         THEN JsonChars(s, i + 2, Append(acc, EscapeDecode(s[i + 1])))
    ELSE IF /\ s[i + 1] = "u"
            /\ i + 5 <= Len(s)
            /\ \A k \in 2..5 : s[i + k] \in HexDigits
         THEN JsonChars(s, i + 6, acc \o <<"<u>">> \o SubSeq(s, i + 2, i + 5))
    ELSE NoParse

\* an integer literal: -? (0 | [1-9][0-9]*) from position i, its digits from
\* d to e - 1; the texts of this model hold no fraction and no exponent
RECURSIVE DigitRun(_, _)
DigitRun(s, i) ==
    IF i <= Len(s) /\ IsDigit(s[i]) THEN DigitRun(s, i + 1) ELSE i
NumberEnd(s, d) ==
    IF d <= Len(s) /\ s[d] = "0" THEN d + 1 ELSE DigitRun(s, d)
NumberBetween(s, i, d, e) ==
    IF e = d THEN NoParse
    ELSE ParsedTo(e, <<"<num>">> \o SubSeq(s, i, e - 1) \o <<"</num>">>)
NumberDigits(s, i, d) == NumberBetween(s, i, d, NumberEnd(s, d))
JsonNumber(s, i) == NumberDigits(s, i, IF s[i] = "-" THEN i + 1 ELSE i)

StartsAt(s, i, t) ==
    i + Len(t) - 1 <= Len(s) /\ SubSeq(s, i, i + Len(t) - 1) = t

\* a string literal whose characters r were read
JsonString(r) ==
    IF r.ok THEN ParsedTo(r.pos, <<"<str>">> \o r.toks \o <<"</str>">>)
    ELSE NoParse

RECURSIVE JsonValue(_, _), JsonValueAt(_, _), JsonObject(_, _), JsonArray(_, _)
RECURSIVE JsonMembers(_, _, _), MemberKey(_, _, _), MemberColon(_, _, _)
RECURSIVE MemberValue(_, _, _), MemberNext(_, _, _)
RECURSIVE JsonElements(_, _, _), ElementValue(_, _, _), ElementNext(_, _, _)

\* the value that starts at position i0, after white space
JsonValue(s, i0) == JsonValueAt(s, SkipWs(s, i0))
JsonValueAt(s, i) ==
    IF i > Len(s) THEN NoParse
    ELSE IF s[i] = DQ THEN JsonString(JsonChars(s, i + 1, <<>>))
    ELSE IF s[i] = "{" THEN JsonObject(s, SkipWs(s, i + 1))
    ELSE IF s[i] = "[" THEN JsonArray(s, SkipWs(s, i + 1))
    ELSE IF StartsAt(s, i, <<"n", "u", "l", "l">>)
         THEN ParsedTo(i + 4, <<"<null>">>)
    ELSE IF StartsAt(s, i, <<"t", "r", "u", "e">>)
         THEN ParsedTo(i + 4, <<"<true>">>)
    ELSE IF StartsAt(s, i, <<"f", "a", "l", "s", "e">>)
         THEN ParsedTo(i + 5, <<"<false>">>)
    ELSE IF s[i] = "-" \/ IsDigit(s[i]) THEN JsonNumber(s, i)
    ELSE NoParse

\* an object, an array: j is the position after the opening character and
\* the white space that follows it
JsonObject(s, j) ==
    IF j <= Len(s) /\ s[j] = "}" THEN ParsedTo(j + 1, <<"<obj>", "</obj>">>)
    ELSE JsonMembers(s, j, <<"<obj>">>)
JsonArray(s, j) ==
    IF j <= Len(s) /\ s[j] = "]" THEN ParsedTo(j + 1, <<"<arr>", "</arr>">>)
    ELSE JsonElements(s, j, <<"<arr>">>)

\* the members of an object from position i, where a key must start: the
\* key k, the colon at c, the value v, and what follows it at e
JsonMembers(s, i, acc) ==
    IF i > Len(s) \/ s[i] # DQ THEN NoParse
    ELSE MemberKey(s, JsonChars(s, i + 1, <<>>), acc)
MemberKey(s, k, acc) ==
    IF ~k.ok THEN NoParse
    ELSE MemberColon(s, SkipWs(s, k.pos),
                     acc \o <<"<key>">> \o k.toks \o <<"</key>">>)
MemberColon(s, c, acc) ==
    IF c > Len(s) \/ s[c] # ":" THEN NoParse
    ELSE MemberValue(s, JsonValue(s, c + 1), acc)
MemberValue(s, v, acc) ==
    IF ~v.ok THEN NoParse ELSE MemberNext(s, SkipWs(s, v.pos), acc \o v.toks)
MemberNext(s, e, all) ==
    IF e > Len(s) THEN NoParse
    ELSE IF s[e] = "}" THEN ParsedTo(e + 1, Append(all, "</obj>"))
    ELSE IF s[e] = "," THEN JsonMembers(s, SkipWs(s, e + 1), all)
    ELSE NoParse

\* the elements of an array from position i, where a value must start
JsonElements(s, i, acc) == ElementValue(s, JsonValue(s, i), acc)
ElementValue(s, v, acc) ==
    IF ~v.ok THEN NoParse ELSE ElementNext(s, SkipWs(s, v.pos), acc \o v.toks)
ElementNext(s, e, all) ==
    IF e > Len(s) THEN NoParse
    ELSE IF s[e] = "]" THEN ParsedTo(e + 1, Append(all, "</arr>"))
    ELSE IF s[e] = "," THEN JsonElements(s, e + 1, all)
    ELSE NoParse

\* JSON.parse: ok with the value, or not ok (a SyntaxError)
ParseResult(text, r) ==
    IF r.ok /\ SkipWs(text, r.pos) > Len(text)
    THEN [ok |-> TRUE, toks |-> r.toks]
    ELSE [ok |-> FALSE, toks |-> <<>>]
JSONparse(text) == ParseResult(text, JsonValue(text, 1))

\* JSON.stringify without indentation
EscapeEncode(c) ==
    CASE c = DQ -> <<BSL, DQ>>
      [] c = BSL -> <<BSL, BSL>>
      [] c = BSP -> <<BSL, "b">>
      [] c = FF -> <<BSL, "f">>
      [] c = LF -> <<BSL, "n">>
      [] c = CR -> <<BSL, "r">>
      [] c = TAB -> <<BSL, "t">>
      [] c = "<u>" -> <<BSL, "u">>
      [] OTHER -> <<c>>

TokenText(tok) ==
    CASE tok = "<obj>" -> <<"{">>
      [] tok = "</obj>" -> <<"}">>
      [] tok = "<arr>" -> <<"[">>
      [] tok = "</arr>" -> <<"]">>
      [] tok \in {"<str>", "<key>", "</str>"} -> <<DQ>>
      [] tok = "</key>" -> <<DQ, ":">>
      [] tok = "<null>" -> <<"n", "u", "l", "l">>
      [] tok = "<true>" -> <<"t", "r", "u", "e">>
      [] tok = "<false>" -> <<"f", "a", "l", "s", "e">>
      [] OTHER -> <<>>

RECURSIVE StringifyFrom(_, _, _, _)
StringifyFrom(toks, i, prev, inString) ==
    IF i > Len(toks) THEN <<>>
    ELSE LET tok == toks[i]
         IN IF inString
            THEN IF tok \in {"</str>", "</key>", "</num>"}
                 THEN TokenText(tok) \o StringifyFrom(toks, i + 1, tok, FALSE)
                 ELSE (IF prev = "<num>" THEN <<tok>> ELSE EscapeEncode(tok))
                      \o StringifyFrom(toks, i + 1, prev, TRUE)
            ELSE LET comma ==
                         /\ prev \notin {"", "<obj>", "<arr>", "</key>"}
                         /\ tok \notin {"</obj>", "</arr>"}
                 IN (IF comma THEN <<",">> ELSE <<>>)
                    \o TokenText(tok)
                    \o StringifyFrom(toks, i + 1, tok,
                                     tok \in {"<str>", "<key>", "<num>"})

JSONstringify(value) == StringifyFrom(value, 1, "", FALSE)

(***************************************************************************)
(* The recovery parsers: parseJsonFromModelText (utils/json.ts) and        *)
(* parseJsonResponse (generate-lessons.ts).  A call returns a value or     *)
(* throws an Error.                                                        *)
(***************************************************************************)
MsgEmptyResponse == <<"M", "o", "d", "e", "l", " ", "r", "e", "t", "u", "r", "n", "e", "d", " ", "a", "n", " ", "e", "m", "p", "t", "y", " ", "r", "e", "s", "p", "o", "n", "s", "e", ".">>
MsgNoJson == <<"M", "o", "d", "e", "l", " ", "r", "e", "s", "p", "o", "n", "s", "e", " ", "d", "i", "d", " ", "n", "o", "t", " ", "c", "o", "n", "t", "a", "i", "n", " ", "v", "a", "l", "i", "d", " ", "J", "S", "O", "N", ".">>
MsgExpectedObject == <<"E", "x", "p", "e", "c", "t", "e", "d", " ", "a", " ", "J", "S", "O", "N", " ", "o", "b", "j", "e", "c", "t", ".">>
MsgSyntaxError == <<"U", "n", "e", "x", "p", "e", "c", "t", "e", "d", " ", "t", "o", "k", "e", "n">>
MsgCouldNotParse == <<"C", "o", "u", "l", "d", " ", "n", "o", "t", " ", "p", "a", "r", "s", "e", " ", "J", "S", "O", "N", " ", "f", "r", "o", "m", " ", "r", "e", "s", "p", "o", "n", "s", "e">>

Returns(v) == [threw |-> FALSE, value |-> v, error |-> Undefined]
Throws(e) == [threw |-> TRUE, value |-> <<>>, error |-> e]

\* JSON.parse as a call: the value, or a SyntaxError
ParseOutcome(r) ==
    IF r.ok THEN Returns(r.toks) ELSE Throws(Err(MsgSyntaxError))
TryParse(text) == ParseOutcome(JSONparse(text))

\* try { return first } catch { second }
OrElse(first, second) == IF first.threw THEN second ELSE first

\* the match in text of the regular expression that reads: three backticks,
\* an optional json, white space, a lazy group 1 of any characters, three
\* backticks; with the flag i or without: whether it matches, and group 1
BACKTICK == "<BACKTICK>"
Fence == <<BACKTICK, BACKTICK, BACKTICK>>
JsonTag == <<"j", "s", "o", "n">>
FenceTag(inner, ignoreCase) ==
    IF Len(inner) < 4 THEN <<>>
    ELSE IF ignoreCase THEN toLowerCase(SubSeq(inner, 1, 4))
    ELSE SubSeq(inner, 1, 4)
FenceGroup(inner, ignoreCase) ==
    trimStart(IF FenceTag(inner, ignoreCase) = JsonTag
              THEN SubSeq(inner, 5, Len(inner))
              ELSE inner)
FenceClose(text, open) ==
    IF open = 0 THEN 0 ELSE indexOfFrom(text, Fence, open + 3)
FenceBetween(text, open, close, ignoreCase) ==
    IF close = 0 THEN [matched |-> FALSE, group |-> <<>>]
    ELSE [matched |-> TRUE,
          group |-> FenceGroup(SubSeq(text, open + 3, close - 1), ignoreCase)]
FenceFrom(text, open, ignoreCase) ==
    FenceBetween(text, open, FenceClose(text, open), ignoreCase)
FenceMatch(text, ignoreCase) ==
    FenceFrom(text, indexOf(text, Fence), ignoreCase)

\* utils/json.ts extractFencedJson: match?.[1]?.trim() ?? null
NoText == [found |-> FALSE, text |-> <<>>]
SomeText(t) == [found |-> TRUE, text |-> t]
FencedText(m) == IF m.matched THEN SomeText(trim(m.group)) ELSE NoText
extractFencedJson(text) == FencedText(FenceMatch(text, TRUE))

\* utils/json.ts extractDelimitedJson
DelimitedBetween(text, startIndex, endIndex) ==
    IF startIndex = 0 \/ endIndex = 0 \/ endIndex <= startIndex
    THEN NoText
    ELSE SomeText(trim(SubSeq(text, startIndex, endIndex)))
extractDelimitedJson(text, start, end) ==
    DelimitedBetween(text, indexOf(text, <<start>>), lastIndexOf(text, <<end>>))

\* if (candidate): null and the empty string are falsy
Truthy(candidate) == candidate.found /\ candidate.text # <<>>

\* utils/json.ts parseJsonFromModelText.  Lines 8-15: the fenced block, its
\* failure caught; lines 17-28: the trimmed text, and in the catch clause
\* the object candidate, the array candidate, their failure not caught
ParseFenced(fenced) ==
    IF Truthy(fenced) THEN TryParse(fenced.text) ELSE Throws(Undefined)
ParseDelimited(objectCandidate, arrayCandidate) ==
    IF ~Truthy(objectCandidate) /\ ~Truthy(arrayCandidate)
    THEN Throws(Err(MsgNoJson))
    ELSE TryParse(IF Truthy(objectCandidate) THEN objectCandidate.text
                  ELSE arrayCandidate.text)
ParseTrimmed(trimmed) ==
    OrElse(TryParse(trimmed),
           ParseDelimited(extractDelimitedJson(trimmed, "{", "}"),
                          extractDelimitedJson(trimmed, "[", "]")))
ParseNonEmpty(trimmed) ==
    IF trimmed = <<>> THEN Throws(Err(MsgEmptyResponse))
    ELSE OrElse(ParseFenced(extractFencedJson(trimmed)), ParseTrimmed(trimmed))
parseJsonFromModelText(raw) == ParseNonEmpty(trim(raw))

\* utils/json.ts asObject
asObject(value) ==
    IF value # <<>> /\ Head(value) = "<obj>"
    THEN Returns(value)
    ELSE Throws(Err(MsgExpectedObject))

\* generate-lessons.ts sanitizeJsonBackslashes
ValidEscapes == {DQ, BSL, "/", "b", "f", "n", "r", "t", "u"}

RECURSIVE SanitizeDoublingAllFrom(_, _)
SanitizeDoublingAllFrom(chars, i) ==
    IF i > Len(chars) THEN <<>>
    ELSE IF chars[i] = BSL /\ i + 1 <= Len(chars)
         THEN <<BSL, BSL>> \o SanitizeDoublingAllFrom(chars, i + 1)
         ELSE <<chars[i]>> \o SanitizeDoublingAllFrom(chars, i + 1)

RECURSIVE SanitizeFrom(_, _)
SanitizeFrom(chars, i) ==
    IF i > Len(chars) THEN <<>>
    ELSE IF chars[i] = BSL /\ i + 1 <= Len(chars)
         THEN IF chars[i + 1] \in ValidEscapes
              THEN <<chars[i], chars[i + 1]>> \o SanitizeFrom(chars, i + 2)
              ELSE <<BSL, BSL>> \o SanitizeFrom(chars, i + 1)
         ELSE <<chars[i]>> \o SanitizeFrom(chars, i + 1)

sanitizeJsonBackslashes(raw) == SanitizeFrom(raw, 1)

\* generate-lessons.ts repairTruncatedJson.  Step 1: cut after the last
\* quote that is not escaped
RECURSIVE BackslashRun(_, _)
BackslashRun(s, idx) ==
    IF idx >= 1 /\ s[idx] = BSL THEN 1 + BackslashRun(s, idx - 1) ELSE 0

RECURSIVE CutAfterLastQuote(_, _), CutAt(_, _, _)
CutAfterLastQuote(s, attempts) == CutAt(s, attempts, lastIndexOf(s, <<DQ>>))
CutAt(s, attempts, lastQuote) ==
    IF attempts >= 20 \/ lastQuote = 0 THEN s
    ELSE IF BackslashRun(s, lastQuote - 1) % 2 # 0
         THEN CutAfterLastQuote(SubSeq(s, 1, lastQuote - 1), attempts + 1)
    ELSE SubSeq(s, 1, lastQuote)

\* step 2: s.replace(/,\s*$/, "")
DropComma(s, t) ==
    IF t # <<>> /\ t[Len(t)] = "," THEN SubSeq(t, 1, Len(t) - 1) ELSE s
DropTrailingComma(s) == DropComma(s, trimEnd(s))

\* step 3: the open braces and brackets outside string literals
RECURSIVE OpenCount(_, _, _, _, _)
OpenCount(s, i, inString, escaped, open) ==
    IF i > Len(s) THEN open
    ELSE IF escaped THEN OpenCount(s, i + 1, inString, FALSE, open)
    ELSE IF s[i] = BSL THEN OpenCount(s, i + 1, inString, TRUE, open)
    ELSE IF s[i] = DQ THEN OpenCount(s, i + 1, ~inString, FALSE, open)
    ELSE IF inString THEN OpenCount(s, i + 1, inString, FALSE, open)
    ELSE OpenCount(s, i + 1, inString, FALSE,
                   CASE s[i] = "{" -> [open EXCEPT !.braces = @ + 1]
                     [] s[i] = "}" -> [open EXCEPT !.braces = @ - 1]
                     [] s[i] = "[" -> [open EXCEPT !.brackets = @ + 1]
                     [] s[i] = "]" -> [open EXCEPT !.brackets = @ - 1]
                     [] OTHER -> open)

Repeat(c, n) == [k \in 1..n |-> c]

CloseOpen(s, open) == s \o Repeat("]", open.brackets) \o Repeat("}", open.braces)
RepairCut(s) ==
    CloseOpen(s, OpenCount(s, 1, FALSE, FALSE, [braces |-> 0, brackets |-> 0]))
repairTruncatedJson(raw) == RepairCut(DropTrailingComma(CutAfterLastQuote(raw, 0)))

\* the payload parseJsonResponse extracts before it parses anything
PayloadOf(raw, fenced, braceStart, braceEnd) ==
    IF fenced.matched THEN trim(fenced.group)
    ELSE IF braceStart >= 1 /\ braceEnd > braceStart
         THEN SubSeq(raw, braceStart, braceEnd)
    ELSE raw
ExtractPayload(raw) ==
    PayloadOf(raw, FenceMatch(raw, FALSE), indexOf(raw, <<"{">>),
              lastIndexOf(raw, <<"}">>))

\* the three parse stages of parseJsonResponse on the payload jsonStr
ParseRepaired(sanitized) ==
    OrElse(TryParse(repairTruncatedJson(sanitized)),
           Throws(Err(MsgCouldNotParse)))
ParseSanitized(sanitized) == OrElse(TryParse(sanitized), ParseRepaired(sanitized))
ParseStages(jsonStr) ==
    OrElse(TryParse(jsonStr), ParseSanitized(sanitizeJsonBackslashes(jsonStr)))

\* generate-lessons.ts parseJsonResponse
parseJsonResponse(raw) == ParseStages(ExtractPayload(raw))

(***************************************************************************)
(* Reading a parsed value as the JavaScript code does.                     *)
(***************************************************************************)
\* the number of containers open before token position i
RECURSIVE DepthAt(_, _)
DepthAt(toks, i) ==
    IF i <= 1 THEN 0
    ELSE DepthAt(toks, i - 1)
         + (IF toks[i - 1] \in {"<obj>", "<arr>"} THEN 1
            ELSE IF toks[i - 1] \in {"</obj>", "</arr>"} THEN -1
            ELSE 0)

\* the last token of the value that starts at position j
ValueEnd(toks, j) ==
    IF toks[j] \in {"<str>", "<num>"}
    THEN SetMin({k \in j..Len(toks) : toks[k] \in {"</str>", "</num>"}})
    ELSE IF toks[j] \in {"<obj>", "<arr>"}
    THEN SetMin({k \in j..Len(toks) : DepthAt(toks, k + 1) = DepthAt(toks, j)})
    ELSE j

\* value[key] for a value that is not null: the member's value, or
\* undefined (not found); of two members with one key the last one counts
PropertyFrom(value, j) == SomeText(SubSeq(value, j, ValueEnd(value, j)))
PropertyAmong(value, name, at) ==
    IF at = {} THEN NoText ELSE PropertyFrom(value, SetMax(at) + Len(name))
PropertyNamed(value, name) ==
    PropertyAmong(value, name,
                  {i \in 1..Len(value) :
                      /\ Head(value) = "<obj>"
                      /\ DepthAt(value, i) = 1
                      /\ StartsAt(value, i, name)})
GetProperty(value, key) ==
    PropertyNamed(value, <<"<key>">> \o key \o <<"</key>">>)

\* the falsy values: undefined, null, false, "", 0
JsTruthy(p) ==
    /\ p.found
    /\ p.text \notin {<<"<null>">>, <<"<false>">>, <<"<str>", "</str>">>,
                      <<"<num>", "0", "</num>">>}

\* value[key] || "": the characters of a string, any other truthy value as
\* it is, "" otherwise
OrEmpty(p) ==
    IF ~JsTruthy(p) THEN <<>>
    ELSE IF Head(p.text) = "<str>" THEN SubSeq(p.text, 2, Len(p.text) - 1)
    ELSE p.text
PropertyOrEmpty(value, key) == OrEmpty(GetProperty(value, key))

\* (value[key] || []).map(q => q.field ...) throws a TypeError when the
\* member is truthy and no array, or an array that holds a null
MapOfThrows(p) ==
    /\ JsTruthy(p)
    /\ \/ Head(p.text) # "<arr>"
       \/ \E i \in 1..Len(p.text) :
            p.text[i] = "<null>" /\ DepthAt(p.text, i) = 1
MapThrows(value, key) == MapOfThrows(GetProperty(value, key))

(***************************************************************************)
(* withRetry (generate-lessons.ts 142-167, extract-subsections.ts 251-276) *)
(* as a record: pc is where the call stands ("idle" before the call,       *)
(* "calling" while fn() is pending, "sleeping" during a backoff,           *)
(* "returned", "thrown"), attempt is the loop variable, value the result   *)
(* or the thrown value.  calls and sleeps are history: the number of       *)
(* invocations of fn and the delays handed to sleep, in order.             *)
(***************************************************************************)
IdleRetry ==
    [pc |-> "idle", attempt |-> 0, calls |-> 0, sleeps |-> <<>>,
     lastErr |-> Undefined, value |-> Undefined]

Pow2(a) == 2 ^ a

\* delayMs = baseMs * Math.pow(2, attempt) + Math.random() * 1000
BackoffDelayLinear(baseMs, attempt, jitter) ==
    baseMs * (attempt + 1) + jitter
BackoffDelay(baseMs, attempt, jitter) ==
    baseMs * Pow2(attempt) + jitter

\* Math.random() * 1000 lies in [0, 1000): its extremes in whole ms
JitterSamples == {0, JITTER_RANGE_MS - 1}

\* the condition of line 154
ShouldRetryAnyError(attempt, R, err) ==
    IntLtNum(attempt, R)
ShouldRetry(attempt, R, err) ==
    IntLtNum(attempt, R) /\ isRateLimitError(err)

\* the head of the for loop: attempt <= maxRetries, then fn() is invoked;
\* past the loop, throw lastErr
RetryLoopHead(r, R) ==
    IF IntLeqNum(r.attempt, R)
    THEN [r EXCEPT !.pc = "calling", !.calls = @ + 1]
    ELSE [r EXCEPT !.pc = "thrown", !.value = r.lastErr]

\* the call of withRetry, up to its first await
RetryStart(R) == RetryLoopHead(IdleRetry, R)

\* fn() settled with outcome o: return, or the catch clause
RetrySettle(r, o, R, baseMs, jitter) ==
    IF o.kind = "ok"
    THEN [r EXCEPT !.pc = "returned", !.value = o]
    ELSE IF ShouldRetry(r.attempt, R, o)
         THEN [r EXCEPT !.lastErr = o, !.pc = "sleeping",
                        !.sleeps = Append(@, BackoffDelay(baseMs, r.attempt, jitter))]
         ELSE [r EXCEPT !.lastErr = o, !.pc = "thrown", !.value = o]

\* the backoff timer fired: attempt++ and the loop head
RetryWake(r, R) == RetryLoopHead([r EXCEPT !.attempt = @ + 1], R)

(***************************************************************************)
(* The stand-alone retry specification: one call withRetry(label, fn) with *)
(* the defaults MAX_RETRIES and INITIAL_BACKOFF_MS.  script is what fn     *)
(* does on its successive invocations; past its end it repeats its last    *)
(* outcome (an operation that always fails).                               *)
(***************************************************************************)
Outcomes == FailureOutcomes \cup {Ok("good")}

Scripts ==
    UNION {
      {s \in [1..n -> Outcomes] : \A i \in 1..(n - 1) : s[i].kind # "ok"}
      : n \in 1..MaxScript }

ScriptAt(s, call) == IF call <= Len(s) THEN s[call] ELSE s[Len(s)]

RetryEnvInputs ==
    {Unset, <<"0">>, <<"1">>, <<"2">>, <<"-", "1">>, <<"x">>}

RetryCall ==
    /\ rt.pc = "idle"
    /\ rt' = RetryStart(maxRetries)
    /\ UNCHANGED <<script, runnerVars>>
    /\ UNCHANGED <<agentVars, checkpointVars, parseVars>>

OperationSettles ==
    /\ rt.pc = "calling"
    /\ \E jitter \in JitterSamples :
         rt' = RetrySettle(rt, ScriptAt(script, rt.calls), maxRetries,
                           INITIAL_BACKOFF_MS, jitter)
    /\ UNCHANGED <<script, runnerVars>>
    /\ UNCHANGED <<agentVars, checkpointVars, parseVars>>

BackoffElapsed ==
    /\ rt.pc = "sleeping"
    /\ rt' = RetryWake(rt, maxRetries)
    /\ UNCHANGED <<script, runnerVars>>
    /\ UNCHANGED <<agentVars, checkpointVars, parseVars>>

(***************************************************************************)
(* Units and results.  A unit is a Subsection of course-structure.json; a  *)
(* result is a GeneratedLesson, of which the model keeps the identity      *)
(* fields and instructionalText (a sequence of text pieces), the fields    *)
(* the program reads back.  origin is history: which path built the value. *)
(***************************************************************************)
Null == "<null>"
FallbackPrefix == "This section covers:"

SubA == [number |-> "3-1", title |-> "Stress", keyConcepts |-> <<"normal stress">>]
SubB == [number |-> Null, title |-> "Strain", keyConcepts |-> <<>>]
Units == {SubA, SubB}

EmptySlot ==
    [sectionNumber |-> Null, sectionTitle |-> "", instructionalText |-> <<>>,
     origin |-> "empty"]

\* a value of an opaque mapper
Val(x) ==
    [sectionNumber |-> Null, sectionTitle |-> x, instructionalText |-> <<>>,
     origin |-> "mapper"]
MapperValues == {Val("a"), Val("b")}

\* the catch clause of generateLesson: the minimal fallback lesson
FallbackLesson(sub) ==
    [sectionNumber |-> sub.number, sectionTitle |-> sub.title,
     instructionalText |-> <<FallbackPrefix>> \o sub.keyConcepts \o <<".">>,
     origin |-> "fallback"]

\* the response texts of the service, by class: "good" is a lesson object,
\* "null" the JSON text null, "garbage" text no stage can parse, "covers" a
\* lesson object whose instructionalText begins "This section covers:"
ResponseBodies == {"good", "null", "garbage"}
LessonText == <<"Stress is force per area.">>
CoversText == <<" stress, strain and their units.">>
ResponseText(body) ==
    CASE body = "good" ->
           <<"{", DQ, "instructionalText", DQ, ":", DQ>> \o LessonText
           \o <<DQ, "}">>
      [] body = "null" -> <<"n", "u", "l", "l">>
      [] body = "covers" ->
           <<"{", DQ, "instructionalText", DQ, ":", DQ, FallbackPrefix>>
           \o CoversText \o <<DQ, "}">>
      [] OTHER -> <<"I cannot answer that.">>

\* how generateLesson settles
Resolved(lesson) == [status |-> "resolved", lesson |-> lesson]
Rejected == [status |-> "rejected", lesson |-> EmptySlot]

LessonRethrow(sub) == Rejected
LessonCatch(sub) == Resolved(FallbackLesson(sub))

\* generateLesson once its withRetry call r has returned or thrown: the
\* rest of the try block (parse the trimmed text, read the members: a
\* property read of null throws, and so does map of what is no array), else
\* the catch clause
LessonFrom(sub, parsed) ==
    IF \/ parsed.threw
       \/ parsed.value = <<"<null>">>
       \/ MapThrows(parsed.value, <<"practiceQuestions">>)
       \/ MapThrows(parsed.value, <<"memorizeableDrills">>)
    THEN LessonCatch(sub)
    ELSE Resolved([sectionNumber |-> sub.number,
                   sectionTitle |-> sub.title,
                   instructionalText |->
                       PropertyOrEmpty(parsed.value, <<"instructionalText">>),
                   origin |-> "parsed"])
generateLessonSettle(sub, r) ==
    IF r.pc = "returned"
    THEN LessonFrom(sub, parseJsonResponse(trim(ResponseText(r.value.body))))
    ELSE LessonCatch(sub)

(***************************************************************************)
(* generate-lessons.ts: the checkpoint file lessons.json and the values    *)
(* main keeps of it.  The file is modelled by what JSON.parse makes of its *)
(* text: kind "absent" is no file, "invalid" a text JSON.parse rejects     *)
(* (a truncated write among them), "noarray" a JSON value without a        *)
(* chapters array, and "json" a value with a chapters array, whose entries *)
(* are chapter objects (shape "chapter") or null (shape "null").  A        *)
(* JavaScript Map is a sequence of [key, value] pairs in insertion order.  *)
(* The chapter numbers of the model are single digits.                     *)
(***************************************************************************)
SubU == [number |-> Null, title |-> "Untitled Section", keyConcepts |-> <<>>]
SubV ==
    [number |-> Null, title |-> "Untitled Section", keyConcepts |-> <<"strain">>]

\* a || b for the identity fields: null and "" are falsy
FirstTruthy(a, b) == IF a \in {Null, ""} THEN b ELSE a

\* chapter.chapterNumber || chapter.chapterTitle, l.sectionNumber ||
\* l.sectionTitle and sub.number || sub.title
ChapterKeyOf(ch) == FirstTruthy(ch.chapterNumber, ch.chapterTitle)
LessonKey(lesson) == FirstTruthy(lesson.sectionNumber, lesson.sectionTitle)
SubKey(sub) == FirstTruthy(sub.number, sub.title)

MapHas(m, k) == \E i \in DOMAIN m : m[i].key = k
MapGet(m, k) == m[CHOOSE i \in DOMAIN m : m[i].key = k].value
MapSet(m, k, v) ==
    IF MapHas(m, k)
    THEN [i \in DOMAIN m |-> IF m[i].key = k THEN [key |-> k, value |-> v]
                             ELSE m[i]]
    ELSE Append(m, [key |-> k, value |-> v])
MapValues(m) == [i \in DOMAIN m |-> m[i].value]

\* lesson.instructionalText.startsWith("This section covers:")
isFallbackLesson(lesson) ==
    /\ lesson.instructionalText # <<>>
    /\ Head(lesson.instructionalText) = FallbackPrefix

AbsentFile == [kind |-> "absent", chapters |-> <<>>]
InvalidFile == [kind |-> "invalid", chapters |-> <<>>]
NoArrayFile == [kind |-> "noarray", chapters |-> <<>>]
JsonFile(chapters) == [kind |-> "json", chapters |-> chapters]

ChapterLessons(chapter, lessons) ==
    [shape |-> "chapter", chapterNumber |-> chapter.chapterNumber,
     chapterTitle |-> chapter.chapterTitle, lessons |-> lessons]
NullEntry ==
    [shape |-> "null", chapterNumber |-> Null, chapterTitle |-> "",
     lessons |-> <<>>]

\* loadExistingLessons: the loop over data.chapters inside the try block; a
\* property read of a null entry throws, the catch clause ignores it, and
\* the map keeps what the loop had set
RECURSIVE LoadFrom(_, _, _)
LoadFrom(chapters, i, existing) ==
    IF i > Len(chapters) \/ chapters[i].shape # "chapter" THEN existing
    ELSE LoadFrom(chapters, i + 1,
                  IF Len(chapters[i].lessons) > 0
                  THEN MapSet(existing, ChapterKeyOf(chapters[i]), chapters[i])
                  ELSE existing)
loadExistingLessons(file) ==
    IF file.kind # "json" THEN <<>> ELSE LoadFrom(file.chapters, 1, <<>>)

\* saveAllLessons: the values sorted (stable) by parseInt(chapterNumber ||
\* "0", 10), written as one JSON text
ChapterOrder(ch) == parseInt10(<<FirstTruthy(ch.chapterNumber, "0")>>)
SortsBefore(a, b) ==
    /\ ChapterOrder(a).kind = "fin"
    /\ ChapterOrder(b).kind = "fin"
    /\ ChapterOrder(a).tenths < ChapterOrder(b).tenths
RECURSIVE InsertChapter(_, _)
InsertChapter(sorted, ch) ==
    IF sorted # <<>> /\ SortsBefore(ch, sorted[Len(sorted)])
    THEN Append(InsertChapter(SubSeq(sorted, 1, Len(sorted) - 1), ch),
                sorted[Len(sorted)])
    ELSE Append(sorted, ch)
RECURSIVE SortChapters(_)
SortChapters(chs) ==
    IF chs = <<>> THEN <<>>
    ELSE InsertChapter(SortChapters(SubSeq(chs, 1, Len(chs) - 1)),
                       chs[Len(chs)])
\* a save that writes the chapter set last and drops the others
saveLastChapter(allResults) ==
    JsonFile(<<MapValues(allResults)[Len(allResults)]>>)
saveAllLessons(allResults) == JsonFile(SortChapters(MapValues(allResults)))

\* main 665-684: the lessons of the prior result that isFallbackLesson
\* selects, their identity keys, and the subsections with such a key
FailedSectionIds(lessons) ==
    {LessonKey(lessons[i]) :
        i \in {j \in DOMAIN lessons : isFallbackLesson(lessons[j])}}
SubsToRetry(subsections, ids) ==
    SelectSeq([i \in DOMAIN subsections |-> i],
              LAMBDA i : SubKey(subsections[i]) \in ids)

\* what main decides for a chapter: mode "Empty" (no subsections), "RunAll"
\* (no prior result), "Skip" (no lesson of the prior result is a fallback)
\* or "RetryOnly"; positions are the subsections it dispatches
Decision(mode, positions, hasPrior, prior) ==
    [mode |-> mode, positions |-> positions, hasPrior |-> hasPrior,
     prior |-> prior]
ClassifyPrior(chapter, existingChapter) ==
    IF FailedSectionIds(existingChapter.lessons) = {}
    THEN Decision("Skip", <<>>, TRUE, existingChapter.lessons)
    ELSE Decision("RetryOnly",
                  SubsToRetry(chapter.subsections,
                              FailedSectionIds(existingChapter.lessons)),
                  TRUE, existingChapter.lessons)
Classify(chapter, existingLessons) ==
    IF chapter.subsections = <<>> THEN Decision("Empty", <<>>, FALSE, <<>>)
    ELSE IF ~MapHas(existingLessons, ChapterKeyOf(chapter))
    THEN Decision("RunAll", [i \in DOMAIN chapter.subsections |-> i], FALSE,
                  <<>>)
    ELSE ClassifyPrior(chapter, MapGet(existingLessons, ChapterKeyOf(chapter)))

\* main 697-715: retriedMap keyed by the identity key (a later lesson with
\* the same key replaces an earlier one), and the merge over the prior
\* lessons
RECURSIVE RetriedMapFrom(_, _, _)
RetriedMapFrom(retried, i, m) ==
    IF i > Len(retried) THEN m
    ELSE RetriedMapFrom(retried, i + 1,
                        MapSet(m, LessonKey(retried[i]), retried[i]))
MergeWith(existing, retriedMap) ==
    [i \in DOMAIN existing |->
        IF MapHas(retriedMap, LessonKey(existing[i]))
        THEN MapGet(retriedMap, LessonKey(existing[i]))
        ELSE existing[i]]
MergeLessons(existing, retried) ==
    MergeWith(existing, RetriedMapFrom(retried, 1, <<>>))

(***************************************************************************)
(* config/runtimeConfig.ts: the numbers of the RuntimeConfig.              *)
(***************************************************************************)
\* Number(raw) for the texts of this model: an optional sign, digits and at
\* most one decimal, or Infinity; anything else is NaN
NumberOf(str) ==
    LET s == trim(str)
        neg == s # <<>> /\ Head(s) = "-"
        body == IF s # <<>> /\ Head(s) \in {"-", "+"} THEN Tail(s) ELSE s
        ints == DigitRun(body, 1) - 1
        whole == DigitPrefix(body, 0)
        sign == IF neg THEN -1 ELSE 1
    IN IF s = <<>> THEN Num(0)
       ELSE IF body = <<"I", "n", "f", "i", "n", "i", "t", "y">>
            THEN IF neg THEN NegInf ELSE PosInf
       ELSE IF ints = 0 THEN NaN
       ELSE IF ints = Len(body) THEN Num(sign * 10 * whole)
       ELSE IF /\ Len(body) = ints + 2
               /\ body[ints + 1] = "."
               /\ IsDigit(body[ints + 2])
            THEN Num(sign * (10 * whole + DigitValue(body[ints + 2])))
       ELSE NaN

\* readNumber(name, fallback, min): the fallback for an unset or blank
\* variable; throws unless the number is finite and at least min
readNumber(env, fallback, min) ==
    LET raw == trim(env)
        parsed == NumberOf(raw)
    IN IF raw = <<>> THEN [threw |-> FALSE, value |-> Int10(fallback)]
       ELSE IF ~NumberIsFinite(parsed) \/ NumLtInt(parsed, min)
            THEN [threw |-> TRUE, value |-> NaN]
       ELSE [threw |-> FALSE, value |-> parsed]

\* loadRuntimeConfig: the configurations it returns for the variables
\* MENTAT_RETRY_COUNT and MENTAT_LESSON_CONCURRENCY and the resolved mode
loadRuntimeConfig(mode, retryEnv, concurrencyEnv) ==
    LET retryCount == readNumber(retryEnv, 2, 0)
        lessonAgentConcurrency == readNumber(concurrencyEnv, 4, 1)
    IN [threw |-> retryCount.threw \/ lessonAgentConcurrency.threw,
        mode |-> mode,
        retryCount |-> retryCount.value,
        lessonAgentConcurrency |-> lessonAgentConcurrency.value]

(***************************************************************************)
(* AgentRuntime.runJson (agents/runtime/agentRuntime.ts).  A call is a     *)
(* record: pc is "idle", "generating" while generateText is pending,       *)
(* "delaying" during delay(300 * attempt), "resolved" or "rejected";       *)
(* made, outcomes, delays and traceCount are history: the invocations of   *)
(* generateText, what they settled with, the delays slept, and the traces  *)
(* built.                                                                  *)
(***************************************************************************)
NoNumber == [kind |-> "undefined", tenths |-> 0]
NoMessage == <<"<undefined>">>

\* a ?? b
Coalesce(a, b) == IF a.kind = "undefined" THEN b ELSE a

\* x + n and Math.max(n, x) for an integer n
NumPlusInt(x, n) == IF x.kind = "fin" THEN Num(x.tenths + 10 * n) ELSE x
MathMax(n, x) ==
    CASE x.kind = "nan" -> NaN
      [] x.kind = "inf" -> PosInf
      [] x.kind = "ninf" -> Int10(n)
      [] OTHER -> IF x.tenths >= 10 * n THEN x ELSE Int10(n)

NoRequest == [stage |-> "-", agentName |-> "-", retryCount |-> NoNumber]
Request(stage, agentName) ==
    [stage |-> stage, agentName |-> agentName, retryCount |-> NoNumber]

NoTrace ==
    [stage |-> "-", agentName |-> "-", mode |-> "-", attemptCount |-> NoNumber,
     fallbackUsed |-> FALSE, errorMessage |-> NoMessage]
NoData == [origin |-> "none", agentName |-> "-", value |-> <<>>]

\* what request.fallback() returns, and request.parse(value): the four
\* callers build their fallback from their own arguments, and their parse
\* starts with asObject(value)
FallbackData(req) ==
    [origin |-> "fallback", agentName |-> req.agentName, value |-> <<>>]
ParsedData(req, value) ==
    [origin |-> "parsed", agentName |-> req.agentName, value |-> value]
RequestParse(req, value) == asObject(value)

IdleCall ==
    [pc |-> "idle", request |-> NoRequest, maxAttempts |-> NoNumber,
     attempt |-> 0, made |-> 0, outcomes |-> <<>>, delays |-> <<>>,
     lastError |-> Undefined, data |-> NoData, rawText |-> <<>>,
     trace |-> NoTrace, traceCount |-> 0]

MsgUnknownRuntimeError == <<"U", "n", "k", "n", "o", "w", "n", " ", "r", "u", "n", "t", "i", "m", "e", " ", "e", "r", "r", "o", "r", ".">>
formatError(value) ==
    IF value.kind = "error" THEN value.msg ELSE MsgUnknownRuntimeError

buildTrace(req, mode, attemptCount, fallbackUsed, errorMessage) ==
    [stage |-> req.stage, agentName |-> req.agentName, mode |-> mode,
     attemptCount |-> attemptCount, fallbackUsed |-> fallbackUsed,
     errorMessage |-> errorMessage]

\* line 78
MaxAttempts(req, cfg) ==
    MathMax(1, NumPlusInt(Coalesce(req.retryCount, cfg.retryCount), 1))

\* return { data, trace, rawText }
CallResolve(c, data, rawText, trace) ==
    [c EXCEPT !.pc = "resolved", !.data = data, !.rawText = rawText,
              !.trace = trace, !.traceCount = @ + 1]

\* past the loop: lines 134-156
CallFallback(c) ==
    CallResolve(c, FallbackData(c.request), <<>>,
                buildTrace(c.request, "live", c.maxAttempts, TRUE,
                           formatError(c.lastError)))

\* the head of the for loop: attempt <= maxAttempts, then generateText
CallLoopHead(c) ==
    IF IntLeqNum(c.attempt, c.maxAttempts)
    THEN [c EXCEPT !.pc = "generating", !.made = @ + 1]
    ELSE CallFallback(c)

\* the call of runJson, up to its first await
runJsonStart(req, cfg) ==
    IF cfg.mode = "mock"
    THEN CallResolve([IdleCall EXCEPT !.request = req], FallbackData(req),
                     <<>>, buildTrace(req, "mock", Int10(1), TRUE, NoMessage))
    ELSE CallLoopHead([IdleCall EXCEPT !.request = req,
                                       !.maxAttempts = MaxAttempts(req, cfg),
                                       !.attempt = 1])

\* the delay of line 129
RetryDelayNone(attempt) == 0
RetryDelay(attempt) == 300 * attempt

\* the catch clause, lines 122-131
CallCatch(c, error) ==
    LET d == [c EXCEPT !.lastError = error]
    IN IF IntLtNum(c.attempt, c.maxAttempts)
       THEN [d EXCEPT !.pc = "delaying",
                      !.delays = Append(@, RetryDelay(c.attempt))]
       ELSE CallLoopHead([d EXCEPT !.attempt = @ + 1])

\* generateText settled with outcome o: lines 96-121, or the catch clause
CallParsed(c, rawText, parsed) ==
    IF parsed.threw THEN CallCatch(c, parsed.error)
    ELSE CallResolve(c, ParsedData(c.request, parsed.value), rawText,
                     buildTrace(c.request, "live", Int10(c.attempt), FALSE,
                                NoMessage))
ParseThen(req, value) ==
    IF value.threw THEN value ELSE RequestParse(req, value.value)
CallText(c, rawText) ==
    CallParsed(c, rawText, ParseThen(c.request, parseJsonFromModelText(rawText)))
CallSeen(c, o) ==
    IF o.kind # "ok" THEN CallCatch(c, o)
    ELSE CallText(c, trim(ResponseText(o.body)))
CallSettle(c, o) == CallSeen([c EXCEPT !.outcomes = Append(@, o)], o)

\* the delay timer fired: attempt += 1 and the loop head
CallWake(c) == CallLoopHead([c EXCEPT !.attempt = @ + 1])

(***************************************************************************)
(* The stand-alone runJson specification: one call against a scripted      *)
(* generateText.                                                           *)
(***************************************************************************)
RunJsonCall ==
    /\ agentCall.pc = "idle"
    /\ agentCall' = runJsonStart(request, config)
    /\ UNCHANGED <<runnerVars, rt, script, config, request, runs, orch>>
    /\ UNCHANGED <<checkpointVars, parseVars>>

GenerateTextSettles ==
    /\ agentCall.pc = "generating"
    /\ orch.pc = "idle"
    /\ agentCall' = CallSettle(agentCall, ScriptAt(script, agentCall.made))
    /\ UNCHANGED <<runnerVars, rt, script, config, request, runs, orch>>
    /\ UNCHANGED <<checkpointVars, parseVars>>

DelayElapsed ==
    /\ agentCall.pc = "delaying"
    /\ orch.pc = "idle"
    /\ agentCall' = CallWake(agentCall)
    /\ UNCHANGED <<runnerVars, rt, script, config, request, runs, orch>>
    /\ UNCHANGED <<checkpointVars, parseVars>>

(***************************************************************************)
(* mapWithConcurrency.  A worker is [pc, idx, claims, waits, rt]: pc is    *)
(* "pacing" during the pacing sleep, "mapper" while its mapper call is     *)
(* pending, "done" when its loop ended, "failed" when its mapper rejected; *)
(* idx is the index it holds, rt the withRetry call of its generateLesson  *)
(* invocation; claims and waits are history: how many indices it has       *)
(* claimed, and the pacing delays it has slept.                            *)
(***************************************************************************)
N == Len(items)
Indices == 0..(N - 1)

\* utils/concurrency.ts line 6
ValidConcurrencyNoFiniteCheck(c) == ~NumLeqInt(c, 0)
ValidConcurrency(c) == NumberIsFinite(c) /\ ~NumLeqInt(c, 0)

\* workerCount: utils line 15 (Math.floor), the scripts' line 175 (none)
WorkerCountAll(v, c, n) == Int10(n)
WorkerCount(v, c, n) ==
    IF v = "utils" THEN MathMin(MathFloor(c), n) ELSE MathMin(c, n)

\* cursor += 1 and cursor++
AdvanceCursorByTwo(c) == c + 2
AdvanceCursor(c) == c + 1

\* results[idx] = value
StoreResultAtCursor(res, idx, cur, v) ==
    IF cur \in DOMAIN res THEN [res EXCEPT ![cur] = v] ELSE res
StoreResult(res, idx, cur, v) == [res EXCEPT ![idx] = v]

\* the request of generateAll for a lesson specification: the agent is
\* named after the specification's id
LessonRequest(specification) ==
    Request("lesson_generation", specification.title)

\* the synchronous part of a mapper call for index idx by worker w
InvokeMapper(st, w, idx) ==
    [st EXCEPT
       !.invoked[idx] = @ + 1,
       !.passed[idx] = items[idx + 1],
       !.workers[w] = [@ EXCEPT !.pc = "mapper", !.idx = idx,
                         !.rt = IF mapperKind = "lesson"
                                THEN RetryStart(maxRetries) ELSE IdleRetry,
                         !.run = IF mapperKind = "agent"
                                 THEN runJsonStart(LessonRequest(items[idx + 1]),
                                                   config)
                                 ELSE IdleCall]]

\* a worker that took one unit and never looked at the cursor again
WorkerLoopOnce(st, w) ==
    IF st.cursor < N /\ st.workers[w].claims = 0
    THEN LET idx == st.cursor
             claimed == [st EXCEPT !.cursor = AdvanceCursor(@),
                                   !.workers[w].idx = idx,
                                   !.workers[w].claims = @ + 1]
         IN IF variant = "local" /\ idx > 0
            THEN [claimed EXCEPT !.workers[w].pc = "pacing",
                                 !.workers[w].waits =
                                     Append(@, INTER_REQUEST_DELAY_MS)]
            ELSE InvokeMapper(claimed, w, idx)
    ELSE [st EXCEPT !.workers[w].pc = "done"]

\* the head of worker w's while loop, up to its next await
WorkerLoop(st, w) ==
    IF st.cursor < N
    THEN LET idx == st.cursor
             claimed == [st EXCEPT !.cursor = AdvanceCursor(@),
                                   !.workers[w].idx = idx,
                                   !.workers[w].claims = @ + 1]
         IN IF variant = "local" /\ idx > 0
            THEN [claimed EXCEPT !.workers[w].pc = "pacing",
                                 !.workers[w].waits =
                                     Append(@, INTER_REQUEST_DELAY_MS)]
            ELSE InvokeMapper(claimed, w, idx)
    ELSE [st EXCEPT !.workers[w].pc = "done"]

\* Array.from({ length: workerCount }, async () => ...): the workers start
\* one after the other, each running to its first await
RECURSIVE SpawnFrom(_, _, _)
SpawnFrom(st, w, count) ==
    IF w >= count THEN st ELSE SpawnFrom(WorkerLoop(st, w), w + 1, count)

NewWorker ==
    [pc |-> "unstarted", idx |-> -1, claims |-> 0, waits |-> <<>>,
     rt |-> IdleRetry, run |-> IdleCall]

Spawn(count) ==
    SpawnFrom([cursor |-> 0,
               workers |-> [w \in 0..(count - 1) |-> NewWorker],
               invoked |-> [i \in Indices |-> 0],
               passed |-> [i \in Indices |-> Null]],
              0, count)

State == [cursor |-> cursor, workers |-> workers, invoked |-> invoked,
          passed |-> passed]

Install(st) ==
    /\ cursor' = st.cursor
    /\ workers' = st.workers
    /\ invoked' = st.invoked
    /\ passed' = st.passed

\* the call of mapWithConcurrency, up to await Promise.all(workers)
Call ==
    /\ mainPc = "idle"
    /\ mapperKind = "agent" => orch.pc = "lessons"
    /\ main.pc \in {"off", "chapter"}
    /\ IF variant = "utils" /\ ~ValidConcurrency(concurrency)
       THEN /\ mainPc' = "rejected"
            /\ UNCHANGED <<cursor, results, workers, invoked, passed>>
       ELSE IF variant = "utils" /\ N = 0
       THEN /\ mainPc' = "resolved"
            /\ UNCHANGED <<cursor, results, workers, invoked, passed>>
       ELSE /\ mainPc' = "join"
            /\ results' = [i \in Indices |-> EmptySlot]
            /\ Install(Spawn(ToLength(WorkerCount(variant, concurrency, N))))
    /\ UNCHANGED <<variant, mapperKind, items, concurrency, maxRetries,
                   returned, order, ended, rt, script>>
    /\ UNCHANGED <<agentVars, checkpointVars, parseVars>>

\* the pacing timer of worker w fired
PacingElapsed(w) ==
    /\ workers[w].pc = "pacing"
    /\ Install(InvokeMapper(State, w, workers[w].idx))
    /\ UNCHANGED <<variant, mapperKind, items, concurrency, maxRetries,
                   mainPc, results, returned, order, ended, rt, script>>
    /\ UNCHANGED <<agentVars, checkpointVars, parseVars>>

\* worker w's mapper call resolved with v: store it and loop
Resume(w, v) ==
    /\ results' = StoreResult(results, workers[w].idx, cursor, v)
    /\ returned' = [returned EXCEPT ![workers[w].idx] = v]
    /\ order' = Append(order, workers[w].idx)
    /\ Install(WorkerLoop(State, w))

\* worker w's mapper call rejected: the worker's promise rejects
FailCancels(w) ==
    /\ workers' = [workers EXCEPT ![w].pc = "failed"]
    /\ cursor' = N
    /\ UNCHANGED <<results, invoked, passed, returned, order>>
Fail(w) ==
    /\ workers' = [workers EXCEPT ![w].pc = "failed"]
    /\ UNCHANGED <<cursor, results, invoked, passed, returned, order>>

MapperResolves(w) ==
    /\ mapperKind = "opaque"
    /\ workers[w].pc = "mapper"
    /\ \E v \in MapperValues : Resume(w, v)
    /\ UNCHANGED <<variant, mapperKind, items, concurrency, maxRetries,
                   mainPc, ended, rt, script>>
    /\ UNCHANGED <<agentVars, checkpointVars, parseVars>>

MapperRejects(w) ==
    /\ mapperKind = "opaque"
    /\ workers[w].pc = "mapper"
    /\ Fail(w)
    /\ UNCHANGED <<variant, mapperKind, items, concurrency, maxRetries,
                   mainPc, ended, rt, script>>
    /\ UNCHANGED <<agentVars, checkpointVars, parseVars>>

\* Promise.all(workers) settles
JoinResolves ==
    /\ mainPc = "join"
    /\ \A w \in DOMAIN workers : workers[w].pc = "done"
    /\ mainPc' = "resolved"
    /\ UNCHANGED <<variant, mapperKind, items, concurrency, maxRetries,
                   cursor, results, workers, invoked, passed, returned, order,
                   ended, rt, script>>
    /\ UNCHANGED <<agentVars, checkpointVars, parseVars>>

JoinRejects ==
    /\ mainPc = "join"
    /\ \E w \in DOMAIN workers : workers[w].pc = "failed"
    /\ mainPc' = "rejected"
    /\ UNCHANGED <<variant, mapperKind, items, concurrency, maxRetries,
                   cursor, results, workers, invoked, passed, returned, order,
                   ended, rt, script>>
    /\ UNCHANGED <<agentVars, checkpointVars, parseVars>>

(***************************************************************************)
(* generateLesson as the mapper.  The service call of worker w settles,    *)
(* its backoff timer fires, and generateLesson settles once its withRetry  *)
(* call has returned or thrown.                                            *)
(***************************************************************************)
ServiceOutcomes ==
    {Ok(b) : b \in ResponseBodies} \cup {ErrRateLimit, ErrTimeout, ErrBadRequest}

\* the outcomes of the runs of main: a lesson, a lesson whose text begins
\* "This section covers:", or a failure
CheckpointOutcomes == {Ok("good"), Ok("covers"), ErrBadRequest}
OfferedOutcomes ==
    IF main.pc = "off" THEN ServiceOutcomes ELSE CheckpointOutcomes

ServiceSettles(w) ==
    /\ mapperKind = "lesson"
    /\ workers[w].pc = "mapper"
    /\ workers[w].rt.pc = "calling"
    /\ \E o \in OfferedOutcomes, jitter \in JitterSamples :
         workers' = [workers EXCEPT ![w].rt =
                       RetrySettle(@, o, maxRetries, INITIAL_BACKOFF_MS, jitter)]
    /\ UNCHANGED <<variant, mapperKind, items, concurrency, maxRetries,
                   mainPc, cursor, results, invoked, passed, returned, order,
                   ended, rt, script>>
    /\ UNCHANGED <<agentVars, checkpointVars, parseVars>>

LessonBackoffElapsed(w) ==
    /\ mapperKind = "lesson"
    /\ workers[w].pc = "mapper"
    /\ workers[w].rt.pc = "sleeping"
    /\ workers' = [workers EXCEPT ![w].rt = RetryWake(@, maxRetries)]
    /\ UNCHANGED <<variant, mapperKind, items, concurrency, maxRetries,
                   mainPc, cursor, results, invoked, passed, returned, order,
                   ended, rt, script>>
    /\ UNCHANGED <<agentVars, checkpointVars, parseVars>>

LessonSettles(w) ==
    /\ mapperKind = "lesson"
    /\ workers[w].pc = "mapper"
    /\ workers[w].rt.pc \in {"returned", "thrown"}
    /\ LET out == generateLessonSettle(items[workers[w].idx + 1], workers[w].rt)
       IN IF out.status = "resolved" THEN Resume(w, out.lesson) ELSE Fail(w)
    /\ ended' = [ended EXCEPT ![workers[w].idx] = workers[w].rt]
    /\ UNCHANGED <<variant, mapperKind, items, concurrency, maxRetries,
                   mainPc, rt, script>>
    /\ UNCHANGED <<agentVars, checkpointVars, parseVars>>

(***************************************************************************)
(* generate-lessons.ts main (610-755).  main.pc is "off" when the          *)
(* specification does not run main, "idle" before the first run,           *)
(* "chapter" while the lessons of chapter main.next are generated, "done"  *)
(* after the loop and "killed" after the process was killed; main.run      *)
(* counts the runs.  hist is history: the file the run loaded, the         *)
(* decision for every chapter the run has reached, the last merge, the map *)
(* of the last save that finished (saved) and of the one before it         *)
(* (before), and the map of the last save as it was at the last kill.      *)
(***************************************************************************)
IdleMain ==
    [pc |-> "off", run |-> 0, existingLessons |-> <<>>, allResults |-> <<>>,
     next |-> 0, mode |-> "-", positions |-> <<>>]
NoMerge == [prior |-> <<>>, retried |-> <<>>, merged |-> <<>>]
IdleHist ==
    [loadedFrom |-> AbsentFile, decisions |-> <<>>, lastMerge |-> NoMerge,
     before |-> <<>>, saved |-> <<>>, atKill |-> <<>>, afterKill |-> FALSE]

\* the subsections main hands to mapWithConcurrency
ItemsOf(m) ==
    IF m.pc # "chapter" THEN <<>>
    ELSE [j \in DOMAIN m.positions |->
             course.chapters[m.next].subsections[m.positions[j]]]

\* the for loop over courseStructure.chapters from chapter i on, up to the
\* next await: chapters without subsections and chapters with a complete
\* prior result are passed over
Noted(h, i, decision) ==
    [h EXCEPT !.decisions =
        Append(@, [chapter |-> i, mode |-> decision.mode,
                   positions |-> decision.positions,
                   hasPrior |-> decision.hasPrior, prior |-> decision.prior])]
RECURSIVE ChapterLoop(_, _, _)
Enter(m, h, i, decision) ==
    IF decision.mode \in {"Empty", "Skip"}
    THEN ChapterLoop(m, Noted(h, i, decision), i + 1)
    ELSE [main |-> [m EXCEPT !.pc = "chapter", !.next = i,
                             !.mode = decision.mode,
                             !.positions = decision.positions],
          hist |-> Noted(h, i, decision)]
ChapterLoop(m, h, i) ==
    IF i > Len(course.chapters)
    THEN [main |-> [m EXCEPT !.pc = "done", !.next = i, !.mode = "-",
                             !.positions = <<>>],
          hist |-> h]
    ELSE Enter(m, h, i, Classify(course.chapters[i], m.existingLessons))

\* the variables of mapWithConcurrency before its next call
ResetRunner(its) ==
    /\ items' = its
    /\ mainPc' = "idle"
    /\ cursor' = 0
    /\ results' = <<>>
    /\ workers' = <<>>
    /\ invoked' = [i \in 0..(Len(its) - 1) |-> 0]
    /\ passed' = [i \in 0..(Len(its) - 1) |-> Null]
    /\ returned' = [i \in 0..(Len(its) - 1) |-> EmptySlot]
    /\ order' = <<>>
    /\ ended' = [i \in 0..(Len(its) - 1) |-> IdleRetry]

Proceed(next) ==
    /\ main' = next.main
    /\ hist' = next.hist
    /\ ResetRunner(ItemsOf(next.main))

\* a run of main starts: it loads the checkpoint, copies it to allResults
\* and enters the loop
Loaded(m, file) ==
    [m EXCEPT !.run = @ + 1,
              !.existingLessons = loadExistingLessons(file),
              !.allResults = loadExistingLessons(file)]
MainStarts ==
    /\ main.pc \in {"idle", "done", "killed"}
    /\ main.run < MaxRuns
    /\ Proceed(ChapterLoop(Loaded(main, disk),
                           [hist EXCEPT !.loadedFrom = disk,
                                        !.decisions = <<>>,
                                        !.afterKill = (main.pc = "killed")],
                           1))
    /\ UNCHANGED <<variant, mapperKind, concurrency, maxRetries, rt, script,
                   disk, course>>
    /\ UNCHANGED <<agentVars, parseVars>>

\* mapWithConcurrency has resolved: the lessons of the chapter (merged into
\* the prior ones on a retry), allResults.set, saveAllLessons, and on to the
\* next chapter
RetriedLessons == [j \in 1..N |-> results[j - 1]]
PriorLessons(m) ==
    MapGet(m.existingLessons, ChapterKeyOf(course.chapters[m.next])).lessons
NewLessons(m) ==
    IF m.mode = "RetryOnly" THEN MergeLessons(PriorLessons(m), RetriedLessons)
    ELSE RetriedLessons
Completed(m) ==
    [m EXCEPT !.allResults =
        MapSet(@, ChapterKeyOf(course.chapters[m.next]),
               ChapterLessons(course.chapters[m.next], NewLessons(m)))]
MergeNoted(h, m) ==
    IF m.mode = "RetryOnly"
    THEN [h EXCEPT !.lastMerge = [prior |-> PriorLessons(m),
                                  retried |-> RetriedLessons,
                                  merged |-> NewLessons(m)]]
    ELSE h
Saved(h, m) ==
    [MergeNoted(h, m) EXCEPT !.before = h.saved,
                             !.saved = Completed(m).allResults]

ChapterDone ==
    /\ main.pc = "chapter"
    /\ mainPc = "resolved"
    /\ disk' = saveAllLessons(Completed(main).allResults)
    /\ Proceed(ChapterLoop(Completed(main), Saved(hist, main), main.next + 1))
    /\ UNCHANGED <<variant, mapperKind, concurrency, maxRetries, rt, script,
                   course>>
    /\ UNCHANGED <<agentVars, parseVars>>

\* the process is killed: its memory is gone, the file stays as it is
Dead(m) == [IdleMain EXCEPT !.pc = "killed", !.run = m.run]
Kill ==
    /\ main.pc = "chapter"
    /\ main' = Dead(main)
    /\ hist' = [hist EXCEPT !.atKill = hist.saved]
    /\ ResetRunner(<<>>)
    /\ UNCHANGED <<variant, mapperKind, concurrency, maxRetries, rt, script,
                   disk, course>>
    /\ UNCHANGED <<agentVars, parseVars>>

\* the process is killed inside fs.writeFileSync of saveAllLessons: the file
\* was truncated and holds a proper prefix of the new text
KilledDuringSave ==
    /\ main.pc = "chapter"
    /\ mainPc = "resolved"
    /\ disk' = InvalidFile
    /\ main' = Dead(main)
    /\ hist' = [hist EXCEPT !.atKill = hist.saved]
    /\ ResetRunner(<<>>)
    /\ UNCHANGED <<variant, mapperKind, concurrency, maxRetries, rt, script,
                   course>>
    /\ UNCHANGED <<agentVars, parseVars>>

(***************************************************************************)
(* LessonGenerationAgent.generateAll (part_001 49-89): the mapper of        *)
(* utils/concurrency.ts mapWithConcurrency awaits runJson, pushes its trace *)
(* and composes the lesson.  The run of worker w's mapper call is          *)
(* workers[w].run; runs is history: every call of runJson that its caller  *)
(* has received, with the unit it was for.                                 *)
(***************************************************************************)
\* the outcomes of generateText in a run: once MaxFaults attempts of the run
\* have failed, every further attempt succeeds; with a script, unit i + 1
\* gets the outcomes of script[i + 1], one per invocation
AgentOutcomes == {Ok("good"), Ok("garbage"), ErrRateLimit}
Offered(unit, c) ==
    IF script # <<>> THEN {ScriptAt(script[unit + 1], c.made)}
    ELSE IF orch.faults < MaxFaults THEN AgentOutcomes
    ELSE {Ok("good")}
Faults(o) == IF o = Ok("good") THEN 0 ELSE 1

\* the finished call of runJson as its caller receives it
Finished(stage, index, c) ==
    [stage |-> stage, index |-> index, trace |-> c.trace,
     traceCount |-> c.traceCount, made |-> c.made, outcomes |-> c.outcomes,
     delays |-> c.delays]

\* traces.push(run.trace)
PushTraceUnlessFallback(traces, run) ==
    IF run.trace.fallbackUsed THEN traces ELSE Append(traces, run.trace)
PushTrace(traces, run) == Append(traces, run.trace)

\* utils/json.ts asString of a member
asString(p) ==
    IF p.found /\ Head(p.text) = "<str>"
    THEN trim(SubSeq(p.text, 2, Len(p.text) - 1))
    ELSE <<>>

\* parseLessonPayload and buildFallbackPayload: the instructional text
FallbackInstructionalText == <<"This lesson targets:">>
PayloadText(text) == IF text = <<>> THEN FallbackInstructionalText ELSE text
InstructionalText(payload) ==
    IF payload.origin = "parsed"
    THEN PayloadText(asString(GetProperty(payload.value, <<"instructionalText">>)))
    ELSE FallbackInstructionalText

composeGeneratedLesson(specification, payload, index) ==
    [sectionNumber |-> specification.number,
     sectionTitle |-> specification.title,
     instructionalText |-> InstructionalText(payload),
     origin |-> payload.origin]

\* generateText of worker w's run settles
AgentServiceSettles(w) ==
    /\ mapperKind = "agent"
    /\ workers[w].pc = "mapper"
    /\ workers[w].run.pc = "generating"
    /\ \E o \in Offered(workers[w].idx, workers[w].run) :
         /\ workers' = [workers EXCEPT ![w].run = CallSettle(@, o)]
         /\ orch' = [orch EXCEPT !.faults = @ + Faults(o)]
    /\ UNCHANGED <<variant, mapperKind, items, concurrency, maxRetries,
                   mainPc, cursor, results, invoked, passed, returned, order,
                   ended, rt, script>>
    /\ UNCHANGED <<config, request, agentCall, runs>>
    /\ UNCHANGED <<checkpointVars, parseVars>>

\* the delay timer of worker w's run fired
AgentDelayElapsed(w) ==
    /\ mapperKind = "agent"
    /\ workers[w].pc = "mapper"
    /\ workers[w].run.pc = "delaying"
    /\ workers' = [workers EXCEPT ![w].run = CallWake(@)]
    /\ UNCHANGED <<variant, mapperKind, items, concurrency, maxRetries,
                   mainPc, cursor, results, invoked, passed, returned, order,
                   ended, rt, script>>
    /\ UNCHANGED <<agentVars, checkpointVars, parseVars>>

\* the mapper of worker w past its await: lines 69-79, then the worker
\* stores the lesson and loops
AgentMapperSettles(w) ==
    /\ mapperKind = "agent"
    /\ workers[w].pc = "mapper"
    /\ workers[w].run.pc = "resolved"
    /\ orch' = [orch EXCEPT !.lessonTraces = PushTrace(@, workers[w].run)]
    /\ runs' = Append(runs, Finished("lesson_generation", workers[w].idx,
                                     workers[w].run))
    /\ Resume(w, composeGeneratedLesson(items[workers[w].idx + 1],
                                        workers[w].run.data, workers[w].idx))
    /\ UNCHANGED <<variant, mapperKind, items, concurrency, maxRetries,
                   mainPc, ended, rt, script>>
    /\ UNCHANGED <<config, request, agentCall>>
    /\ UNCHANGED <<checkpointVars, parseVars>>

(***************************************************************************)
(* CourseOrchestrator.run for one corpus (courseOrchestrator.ts 35-115).   *)
(* orch.pc is the stage whose agent is awaited: "roadmap", "chapter",      *)
(* "lessons", "assessment", then "persist" and "done"; orch.traces is the  *)
(* traces array of the run, orch.lessonTraces the one of generateAll,      *)
(* orch.written the content of agent-traces.json; writes and faults are    *)
(* history.  The stages with one request run it as agentCall.              *)
(***************************************************************************)
RoadmapRequest == Request("roadmap_generation", "roadmap-agent")
ChapterRequest == Request("chapter_decomposition", "chapter-agent")
AssessmentRequest == Request("assessment_generation", "assessment-agent")

\* lines 40-46: the run starts and awaits roadmapAgent.generate
RunStarts ==
    /\ orch.pc = "idle"
    /\ mapperKind = "agent"
    /\ agentCall.pc = "idle"
    /\ orch' = [orch EXCEPT !.pc = "roadmap"]
    /\ agentCall' = runJsonStart(RoadmapRequest, config)
    /\ UNCHANGED <<runnerVars, rt, script, config, request, runs>>
    /\ UNCHANGED <<checkpointVars, parseVars>>

\* generateText of the stage's request settles
StageServiceSettles ==
    /\ orch.pc \in {"roadmap", "chapter", "assessment"}
    /\ agentCall.pc = "generating"
    /\ \E o \in Offered(0, agentCall) :
         /\ agentCall' = CallSettle(agentCall, o)
         /\ orch' = [orch EXCEPT !.faults = @ + Faults(o)]
    /\ UNCHANGED <<runnerVars, rt, script, config, request, runs>>
    /\ UNCHANGED <<checkpointVars, parseVars>>

StageDelayElapsed ==
    /\ orch.pc \in {"roadmap", "chapter", "assessment"}
    /\ agentCall.pc = "delaying"
    /\ agentCall' = CallWake(agentCall)
    /\ UNCHANGED <<runnerVars, rt, script, config, request, runs, orch>>
    /\ UNCHANGED <<checkpointVars, parseVars>>

\* the stage's agent returned { artifact, traces: [run.trace], rawResponses }:
\* traces.push(...result.traces), the artifacts are persisted and the next
\* agent is called
NextStage(pc) ==
    CASE pc = "roadmap" -> "chapter"
      [] pc = "chapter" -> "lessons"
      [] pc = "assessment" -> "persist"
NextCall(pc) ==
    IF pc = "roadmap" THEN runJsonStart(ChapterRequest, config) ELSE IdleCall
StageReturns ==
    /\ orch.pc \in {"roadmap", "chapter", "assessment"}
    /\ agentCall.pc = "resolved"
    /\ orch' = [orch EXCEPT !.pc = NextStage(@),
                            !.traces = @ \o PushTrace(<<>>, agentCall)]
    /\ runs' = Append(runs, Finished(agentCall.request.stage, 0, agentCall))
    /\ agentCall' = NextCall(orch.pc)
    /\ UNCHANGED <<runnerVars, rt, script, config, request>>
    /\ UNCHANGED <<checkpointVars, parseVars>>

\* lessonAgent.generateAll returned: lines 58-65, then assessmentEngine
LessonsReturn ==
    /\ orch.pc = "lessons"
    /\ mainPc = "resolved"
    /\ orch' = [orch EXCEPT !.pc = "assessment",
                            !.traces = @ \o orch.lessonTraces]
    /\ agentCall' = runJsonStart(AssessmentRequest, config)
    /\ UNCHANGED <<runnerVars, rt, script, config, request, runs>>
    /\ UNCHANGED <<checkpointVars, parseVars>>

\* pipelineArtifactStore.ts persistTraces, called at line 88
persistTraces(o) ==
    [o EXCEPT !.pc = "done", !.written = o.traces, !.writes = @ + 1]
PersistTraces ==
    /\ orch.pc = "persist"
    /\ orch' = persistTraces(orch)
    /\ UNCHANGED <<runnerVars, rt, script, config, request, agentCall, runs>>
    /\ UNCHANGED <<checkpointVars, parseVars>>

(***************************************************************************)
(* Specifications.                                                         *)
(***************************************************************************)
ItemLists(max) == UNION {[1..n -> Units] : n \in 0..max}

\* the concurrency values utils/concurrency.ts is called with
ConcurrencyInputs ==
    {Num(-10), Num(0), Num(5), Num(10), Num(20), Num(27), Num(40),
     NaN, PosInf, NegInf}

\* MENTAT_LESSON_CONCURRENCY as the scripts can find it
ConcurrencyEnvInputs ==
    {Unset, <<"0">>, <<"2">>, <<"4">>, <<"-", "1">>, <<"2", ".", "7">>, <<"x">>}

InitRunnerState ==
    /\ mainPc = "idle"
    /\ cursor = 0
    /\ results = <<>>
    /\ workers = <<>>
    /\ invoked = [i \in Indices |-> 0]
    /\ passed = [i \in Indices |-> Null]
    /\ returned = [i \in Indices |-> EmptySlot]
    /\ order = <<>>
    /\ ended = [i \in Indices |-> IdleRetry]

\* the variables of the other specifications, at rest
IdleOrch ==
    [pc |-> "idle", traces |-> <<>>, lessonTraces |-> <<>>, written |-> <<>>,
     writes |-> 0, faults |-> 0]
DefaultConfig == loadRuntimeConfig("live", Unset, Unset)
IdleParse == [fn |-> "-", writing |-> "-", value |-> <<>>, text |-> <<>>,
              done |-> FALSE, result |-> Returns(<<>>)]
InitAgentIdle ==
    /\ config = DefaultConfig
    /\ request = NoRequest
    /\ agentCall = IdleCall
    /\ runs = <<>>
    /\ orch = IdleOrch
InitCheckpointIdle ==
    /\ disk = AbsentFile
    /\ main = IdleMain
    /\ course = [bookTitle |-> "", chapters |-> <<>>]
    /\ hist = IdleHist
InitParseIdle == px = IdleParse

\* Spec: mapWithConcurrency, either copy, with an opaque mapper
Init ==
    /\ variant \in {"utils", "local"}
    /\ mapperKind = "opaque"
    /\ items \in ItemLists(MaxItems)
    /\ concurrency \in IF variant = "utils" THEN ConcurrencyInputs
                       ELSE {CONCURRENCY(e) : e \in ConcurrencyEnvInputs}
    /\ maxRetries = MAX_RETRIES(Unset)
    /\ InitRunnerState
    /\ rt = IdleRetry
    /\ script = <<Ok("good")>>
    /\ InitAgentIdle
    /\ InitCheckpointIdle
    /\ InitParseIdle

Next ==
    \/ Call
    \/ \E w \in DOMAIN workers : PacingElapsed(w)
    \/ \E w \in DOMAIN workers : MapperResolves(w)
    \/ \E w \in DOMAIN workers : MapperRejects(w)
    \/ JoinResolves
    \/ JoinRejects

Spec == Init /\ [][Next]_vars

\* SpecLessons: the scripts' mapWithConcurrency over the subsections of a
\* chapter with generateLesson as the mapper
LessonRetryEnvInputs == {<<"0">>, <<"1">>, <<"x">>}

InitLessons ==
    /\ variant = "local"
    /\ mapperKind = "lesson"
    /\ items \in ItemLists(MaxLessonItems)
    /\ concurrency \in {CONCURRENCY(e) : e \in {Unset, <<"2">>, <<"0">>}}
    /\ maxRetries \in {MAX_RETRIES(e) : e \in LessonRetryEnvInputs}
    /\ InitRunnerState
    /\ rt = IdleRetry
    /\ script = <<Ok("good")>>
    /\ InitAgentIdle
    /\ InitCheckpointIdle
    /\ InitParseIdle

NextLessons ==
    \/ Call
    \/ \E w \in DOMAIN workers : PacingElapsed(w)
    \/ \E w \in DOMAIN workers : ServiceSettles(w)
    \/ \E w \in DOMAIN workers : LessonBackoffElapsed(w)
    \/ \E w \in DOMAIN workers : LessonSettles(w)
    \/ JoinResolves

SpecLessons == InitLessons /\ [][NextLessons]_vars

\* SpecRetry: one withRetry call against a scripted operation
InitRetry ==
    /\ variant = "local"
    /\ mapperKind = "opaque"
    /\ items = <<>>
    /\ concurrency = CONCURRENCY(Unset)
    /\ maxRetries \in {MAX_RETRIES(e) : e \in RetryEnvInputs}
    /\ InitRunnerState
    /\ rt = IdleRetry
    /\ script \in Scripts
    /\ InitAgentIdle
    /\ InitCheckpointIdle
    /\ InitParseIdle

NextRetry ==
    \/ RetryCall
    \/ OperationSettles
    \/ BackoffElapsed

SpecRetry == InitRetry /\ [][NextRetry]_vars

\* SpecRuntime: one runJson call of an AgentRuntime whose configuration
\* loadRuntimeConfig returned, against a scripted generateText
RuntimeRetryEnvInputs ==
    {Unset, <<"0">>, <<"1">>, <<"1", ".", "5">>, <<"-", "1">>, <<"x">>}
RuntimeConfigs ==
    {c \in {loadRuntimeConfig(m, e, Unset) :
              m \in {"live", "mock"}, e \in RuntimeRetryEnvInputs} : ~c.threw}
RequestRetryCounts == {NoNumber, Int10(0), Int10(-1)}
RuntimeOutcomes ==
    {Ok(b) : b \in ResponseBodies} \cup {ErrRateLimit, ErrTimeout, Raw429}
RuntimeScripts ==
    UNION {
      {s \in [1..n -> RuntimeOutcomes] : \A i \in 1..(n - 1) : s[i] # Ok("good")}
      : n \in 1..MaxScript }

InitRuntime ==
    /\ variant = "utils"
    /\ mapperKind = "agent"
    /\ items = <<>>
    /\ config \in RuntimeConfigs
    /\ concurrency = config.lessonAgentConcurrency
    /\ maxRetries = MAX_RETRIES(Unset)
    /\ InitRunnerState
    /\ rt = IdleRetry
    /\ script \in RuntimeScripts
    /\ request \in {[Request("lesson_generation", "lesson-agent")
                       EXCEPT !.retryCount = r] : r \in RequestRetryCounts}
    /\ agentCall = IdleCall
    /\ runs = <<>>
    /\ orch = IdleOrch
    /\ InitCheckpointIdle
    /\ InitParseIdle

NextRuntime ==
    \/ RunJsonCall
    \/ GenerateTextSettles
    \/ DelayElapsed

SpecRuntime == InitRuntime /\ [][NextRuntime]_vars

\* SpecAgent: CourseOrchestrator.run for one corpus whose chapter
\* decomposition yields the lesson specifications items
AgentConfigs ==
    {c \in {loadRuntimeConfig(m, e, l) :
              m \in {"live", "mock"}, e \in {<<"0">>, <<"1">>},
              l \in {<<"1">>, <<"2">>, <<"1", ".", "5">>, <<"0", ".", "5">>}} :
        ~c.threw}

InitAgent ==
    /\ variant = "utils"
    /\ mapperKind = "agent"
    /\ items \in ItemLists(MaxSpecifications)
    /\ config \in AgentConfigs
    /\ concurrency = config.lessonAgentConcurrency
    /\ maxRetries = MAX_RETRIES(Unset)
    /\ InitRunnerState
    /\ rt = IdleRetry
    /\ script = <<>>
    /\ request = NoRequest
    /\ agentCall = IdleCall
    /\ runs = <<>>
    /\ orch = IdleOrch
    /\ InitCheckpointIdle
    /\ InitParseIdle

NextAgent ==
    \/ RunStarts
    \/ StageServiceSettles
    \/ StageDelayElapsed
    \/ StageReturns
    \/ Call
    \/ \E w \in DOMAIN workers : AgentServiceSettles(w)
    \/ \E w \in DOMAIN workers : AgentDelayElapsed(w)
    \/ \E w \in DOMAIN workers : AgentMapperSettles(w)
    \/ JoinResolves
    \/ LessonsReturn
    \/ PersistTraces

SpecAgent == InitAgent /\ [][NextAgent]_vars

\* SpecEndToEnd: generateAll over five lesson specifications with
\* concurrency 2 and a retry budget of 2 or 3; the service fails the first
\* two attempts of unit #3 with rate-limit errors and answers every other
\* attempt at once
RateLimitErrors == {ErrRateLimit, Err429, ErrQuota}
EndToEndScripts ==
    {[i \in 1..5 |-> IF i = 3 THEN <<f, g, Ok("good")>> ELSE <<Ok("good")>>] :
        f \in RateLimitErrors, g \in RateLimitErrors}
EndToEndItems ==
    {<<SubA, SubB, SubA, SubB, SubA>>, <<SubB, SubB, SubA, SubA, SubB>>}

InitEndToEnd ==
    /\ variant = "utils"
    /\ mapperKind = "agent"
    /\ items \in EndToEndItems
    /\ config \in {loadRuntimeConfig("live", e, <<"2">>) : e \in {<<"2">>, <<"3">>}}
    /\ concurrency = config.lessonAgentConcurrency
    /\ maxRetries = MAX_RETRIES(Unset)
    /\ InitRunnerState
    /\ rt = IdleRetry
    /\ script \in EndToEndScripts
    /\ request = NoRequest
    /\ agentCall = IdleCall
    /\ runs = <<>>
    /\ orch = [IdleOrch EXCEPT !.pc = "lessons"]
    /\ InitCheckpointIdle
    /\ InitParseIdle

NextEndToEnd ==
    \/ Call
    \/ \E w \in DOMAIN workers : AgentServiceSettles(w)
    \/ \E w \in DOMAIN workers : AgentDelayElapsed(w)
    \/ \E w \in DOMAIN workers : AgentMapperSettles(w)
    \/ JoinResolves

SpecEndToEnd == InitEndToEnd /\ [][NextEndToEnd]_vars

\* SpecCheckpoint: runs of generate-lessons over a course, with kills, each
\* run starting from the checkpoint file the last one left
ChapterNumbers == <<"1", "2", "3", "4">>
SubsectionLists == {<<>>, <<SubA>>, <<SubA, SubU, SubV>>}
Chapter(i, subsections) ==
    [chapterNumber |-> ChapterNumbers[i], chapterTitle |-> "Chapter",
     subsections |-> subsections]
RECURSIVE UnitsFrom(_, _)
UnitsFrom(f, i) ==
    IF i \notin DOMAIN f THEN 0 ELSE Len(f[i]) + UnitsFrom(f, i + 1)
Courses ==
    UNION {{[bookTitle |-> "Mechanics",
             chapters |-> [i \in 1..n |-> Chapter(i, f[i])]] :
               f \in {g \in [1..n -> SubsectionLists] :
                        UnitsFrom(g, 1) <= MaxUnits}} : n \in 1..MaxChapters}

\* the result an earlier run has saved for a chapter whose units all parsed
ParsedLesson(sub) ==
    [sectionNumber |-> sub.number, sectionTitle |-> sub.title,
     instructionalText |-> LessonText, origin |-> "parsed"]
PriorEntry(chapter) ==
    ChapterLessons(chapter, [i \in DOMAIN chapter.subsections |->
                                ParsedLesson(chapter.subsections[i])])
\* the files the first run can find: none, a damaged one, and one whose
\* chapters array holds the result of chapter 1 followed by null
InitialFiles(c) ==
    {AbsentFile, InvalidFile, NoArrayFile}
    \cup {JsonFile(<<PriorEntry(c.chapters[1]), NullEntry>>)}

InitCheckpoint ==
    /\ variant = "local"
    /\ mapperKind = "lesson"
    /\ items = <<>>
    /\ concurrency \in {CONCURRENCY(e) : e \in {Unset, <<"2">>}}
    /\ maxRetries = MAX_RETRIES(<<"0">>)
    /\ InitRunnerState
    /\ rt = IdleRetry
    /\ script = <<Ok("good")>>
    /\ InitAgentIdle
    /\ course \in Courses
    /\ disk \in InitialFiles(course)
    /\ main = [IdleMain EXCEPT !.pc = "idle"]
    /\ hist = IdleHist
    /\ InitParseIdle

NextCheckpoint ==
    \/ MainStarts
    \/ Call
    \/ \E w \in DOMAIN workers : PacingElapsed(w)
    \/ \E w \in DOMAIN workers : ServiceSettles(w)
    \/ \E w \in DOMAIN workers : LessonSettles(w)
    \/ JoinResolves
    \/ ChapterDone
    \/ KilledDuringSave
    \/ Kill

SpecCheckpoint == InitCheckpoint /\ [][NextCheckpoint]_vars

\* SpecParse: a recovery parser applied to a text written from a structured
\* value: the text JSON.stringify gives ("serialized"), or that text with
\* the backslash before a letter outside the valid escapes left single
\* ("unescaped"), as in a payload holding \sigma
ParseStrings ==
    {<<"x">>, <<BSL, "s">>, <<"{", "}">>, Fence \o <<"{", "}">> \o Fence,
     <<LF, BSL, "q">>}
StringValue(chars) == <<"<str>">> \o chars \o <<"</str>">>
ObjectValue(chars) ==
    <<"<obj>", "<key>", "a", "</key>">> \o StringValue(chars) \o <<"</obj>">>
RECURSIVE ObjectsFrom(_, _)
ObjectsFrom(f, i) ==
    IF i \notin DOMAIN f THEN <<>>
    ELSE ObjectValue(f[i]) \o ObjectsFrom(f, i + 1)
ArrayValue(elements) == <<"<arr>">> \o elements \o <<"</arr>">>
ParseValues ==
    {<<"<obj>", "</obj>">>, ArrayValue(<<>>)}
    \cup {ObjectValue(s) : s \in ParseStrings}
    \cup {ArrayValue(StringValue(s)) : s \in ParseStrings}
    \cup UNION {{ArrayValue(ObjectsFrom(f, 1)) : f \in [1..n -> ParseStrings]} :
                  n \in 1..MaxElements}

InvalidEscapeLetters == {"s", "q"}
RECURSIVE UnescapedFrom(_, _)
UnescapedFrom(chars, i) ==
    IF i > Len(chars) THEN <<>>
    ELSE IF chars[i] # BSL \/ i = Len(chars)
    THEN <<chars[i]>> \o UnescapedFrom(chars, i + 1)
    ELSE IF /\ chars[i + 1] = BSL
            /\ i + 2 <= Len(chars)
            /\ chars[i + 2] \in InvalidEscapeLetters
    THEN <<BSL>> \o UnescapedFrom(chars, i + 2)
    ELSE <<chars[i], chars[i + 1]>> \o UnescapedFrom(chars, i + 2)
Written(value, writing) ==
    IF writing = "serialized" THEN JSONstringify(value)
    ELSE UnescapedFrom(JSONstringify(value), 1)

ParseInput(fn, value, writing) ==
    [fn |-> fn, writing |-> writing, value |-> value,
     text |-> Written(value, writing), done |-> FALSE,
     result |-> Returns(<<>>)]

\* the serialized texts cut off inside a string literal: the cut leaves an
\* odd number of unescaped quotes
RECURSIVE InStringAfter(_, _, _, _)
InStringAfter(s, i, inString, escaped) ==
    IF i > Len(s) THEN inString
    ELSE IF escaped THEN InStringAfter(s, i + 1, inString, FALSE)
    ELSE IF s[i] = BSL THEN InStringAfter(s, i + 1, inString, TRUE)
    ELSE InStringAfter(s, i + 1, (s[i] = DQ) # inString, FALSE)
NestedValue ==
    <<"<obj>", "<key>", "a", "</key>">>
    \o ArrayValue(StringValue(<<"x">>) \o ObjectValue(<<"y", "z">>))
    \o <<"</obj>">>
RepairValues == ParseValues \cup {NestedValue}
CutsOf(text) ==
    {SubSeq(text, 1, k) :
        k \in {j \in 1..(Len(text) - 1) :
                 InStringAfter(SubSeq(text, 1, j), 1, FALSE, FALSE)}}
RepairInputs ==
    UNION {{[fn |-> "repairTruncatedJson", writing |-> "truncated",
             value |-> v, text |-> cut, done |-> FALSE,
             result |-> Returns(<<>>)] : cut \in CutsOf(JSONstringify(v))} :
             v \in RepairValues}
ParseInputs ==
    {ParseInput(fn, v, "serialized") :
        fn \in {"parseJsonFromModelText", "parseJsonResponse"},
        v \in ParseValues}
    \cup {ParseInput("parseJsonResponse", v, "unescaped") :
            v \in {u \in ParseValues :
                     Written(u, "unescaped") # Written(u, "serialized")}}

InitParse ==
    /\ variant = "local"
    /\ mapperKind = "opaque"
    /\ items = <<>>
    /\ concurrency = CONCURRENCY(Unset)
    /\ maxRetries = MAX_RETRIES(Unset)
    /\ InitRunnerState
    /\ rt = IdleRetry
    /\ script = <<Ok("good")>>
    /\ InitAgentIdle
    /\ InitCheckpointIdle
    /\ px \in ParseInputs \cup RepairInputs

ParseModelText ==
    /\ px.fn = "parseJsonFromModelText"
    /\ ~px.done
    /\ px' = [px EXCEPT !.done = TRUE,
                        !.result = parseJsonFromModelText(px.text)]
    /\ UNCHANGED <<runnerVars, rt, script, agentVars, checkpointVars>>

ParseResponse ==
    /\ px.fn = "parseJsonResponse"
    /\ ~px.done
    /\ px' = [px EXCEPT !.done = TRUE, !.result = parseJsonResponse(px.text)]
    /\ UNCHANGED <<runnerVars, rt, script, agentVars, checkpointVars>>

RepairTruncated ==
    /\ px.fn = "repairTruncatedJson"
    /\ ~px.done
    /\ px' = [px EXCEPT !.done = TRUE,
                        !.result = Returns(repairTruncatedJson(px.text))]
    /\ UNCHANGED <<runnerVars, rt, script, agentVars, checkpointVars>>

NextParse ==
    \/ ParseModelText
    \/ ParseResponse
    \/ RepairTruncated

SpecParse == InitParse /\ [][NextParse]_vars

\* SpecPull: either runner with concurrency >= 2 over units of which at most
\* one has a handler that never completes; every other handler completes,
\* and timers and continuations are scheduled fairly
SubNever == [number |-> "9-9", title |-> "Never", keyConcepts |-> <<>>]
PullItems ==
    {its \in UNION {[1..n -> {SubA, SubNever}] : n \in 1..MaxItems} :
        Cardinality({i \in DOMAIN its : its[i] = SubNever}) <= 1}
PullConcurrency == {Num(20), Num(27), Num(40)}
WorkerIds == 0..(MaxItems - 1)

InitPull ==
    /\ variant \in {"utils", "local"}
    /\ mapperKind = "opaque"
    /\ items \in PullItems
    /\ concurrency \in IF variant = "utils" THEN PullConcurrency
                       ELSE {CONCURRENCY(<<"2">>)}
    /\ maxRetries = MAX_RETRIES(Unset)
    /\ InitRunnerState
    /\ rt = IdleRetry
    /\ script = <<Ok("good")>>
    /\ InitAgentIdle
    /\ InitCheckpointIdle
    /\ InitParseIdle

PullPacingElapsed(w) == w \in DOMAIN workers /\ PacingElapsed(w)
PullMapperResolves(w) ==
    /\ w \in DOMAIN workers
    /\ workers[w].pc = "mapper"
    /\ items[workers[w].idx + 1] # SubNever
    /\ MapperResolves(w)

NextPull ==
    \/ Call
    \/ \E w \in WorkerIds : PullPacingElapsed(w)
    \/ \E w \in WorkerIds : PullMapperResolves(w)
    \/ JoinResolves

SpecPull ==
    /\ InitPull
    /\ [][NextPull]_vars
    /\ WF_vars(Call)
    /\ WF_vars(JoinResolves)
    /\ \A w \in WorkerIds : WF_vars(PullPacingElapsed(w))
    /\ \A w \in WorkerIds : WF_vars(PullMapperResolves(w))

(***************************************************************************)
(* Properties of the runner (specification Spec).                          *)
(***************************************************************************)
IntegerAtLeastOne(c) == c.kind = "fin" /\ c.tenths >= 10 /\ c.tenths % 10 = 0
InvalidConcurrency(c) == c.kind # "fin" \/ c.tenths <= 0
Min(a, b) == IF a <= b THEN a ELSE b
InFlight == {w \in DOMAIN workers : workers[w].pc = "mapper"}
Holding == {w \in DOMAIN workers : workers[w].pc \in {"pacing", "mapper"}}
RECURSIVE SumClaims(_)
SumClaims(W) ==
    IF W = {} THEN 0
    ELSE LET w == CHOOSE x \in W : TRUE
         IN workers[w].claims + SumClaims(W \ {w})

\* C1: for a non-empty list and an integer concurrency >= 1, a resolved
\* run holds one slot per unit, slot i holding the value the handler
\* returned for units[i], whatever the order of completion; and such a run
\* rejects only when a handler rejected.
C1_ResultsInInputOrder ==
    (N > 0 /\ IntegerAtLeastOne(concurrency)) =>
        /\ mainPc = "resolved" =>
             /\ DOMAIN results = Indices
             /\ \A i \in Indices :
                  /\ passed[i] = items[i + 1]
                  /\ returned[i] # EmptySlot
                  /\ results[i] = returned[i]
        /\ mainPc = "rejected" =>
             \E w \in DOMAIN workers : workers[w].pc = "failed"

\* a resolved run of three units whose handlers completed out of input
\* order, with different values
C1_Witness ==
    /\ mainPc = "resolved"
    /\ N = 3
    /\ concurrency = Int10(2)
    /\ order = <<1, 2, 0>>
    /\ results[0] # results[1]

\* C2: no index is claimed twice and none is skipped: the handler is never
\* invoked twice for an index, two workers never hold the same index, the
\* claims of the workers add up to the cursor, and a resolved run (integer
\* concurrency >= 1) has invoked the handler exactly once per unit.
C2_EachIndexClaimedOnce ==
    /\ \A i \in Indices : invoked[i] <= 1
    /\ \A w1, w2 \in Holding : w1 # w2 => workers[w1].idx # workers[w2].idx
    /\ mainPc # "idle" => cursor = SumClaims(DOMAIN workers) /\ cursor <= N
    /\ (mainPc = "resolved" /\ IntegerAtLeastOne(concurrency)) =>
          /\ N > 0 => cursor = N
          /\ \A i \in Indices : invoked[i] = 1

\* a resolved run in which one worker claimed two indices and another one
C2_Witness ==
    /\ mainPc = "resolved"
    /\ N = 3
    /\ \E w1, w2 \in DOMAIN workers :
         workers[w1].claims = 2 /\ workers[w2].claims = 1

\* C3: for an integer concurrency >= 1, min(concurrency, units) workers
\* are started, and at most that many handler invocations are in flight.
C3_WorkerCountIsMin ==
    (mainPc # "idle" /\ IntegerAtLeastOne(concurrency)) =>
        LET m == Min(concurrency.tenths \div 10, N)
        IN /\ Cardinality(DOMAIN workers) = m
           /\ \A w \in DOMAIN workers : workers[w].pc # "unstarted"
           /\ Cardinality(InFlight) <= m

\* three units, concurrency 2: two invocations in flight, one unit waiting
C3_Witness ==
    /\ N = 3
    /\ concurrency = Int10(2)
    /\ Cardinality(InFlight) = 2
    /\ cursor = 2

\* C4: utils/concurrency.ts with a concurrency <= 0, NaN or infinite
\* rejects before any handler is invoked, for every items list.
C4_UtilsRejectsInvalidConcurrency ==
    (variant = "utils" /\ InvalidConcurrency(concurrency)) =>
        /\ mainPc \in {"idle", "rejected"}
        /\ workers = <<>>
        /\ \A i \in Indices : invoked[i] = 0

\* the call rejected for NaN with an empty list, and for 0 with units
C4_Witness ==
    /\ variant = "utils"
    /\ mainPc = "rejected"
    /\ \/ concurrency = NaN /\ N = 0
       \/ concurrency = Int10(0) /\ N = 2

\* C5: the scripts' runner, given a concurrency <= 0 or non-finite and a
\* non-empty list, fails instead of resolving with a result array.
C5_LocalRejectsInvalidConcurrency ==
    (variant = "local" /\ InvalidConcurrency(concurrency) /\ N > 0) =>
        mainPc # "resolved"

(***************************************************************************)
(* Properties of generateLesson under the runner (specification            *)
(* SpecLessons).                                                           *)
(***************************************************************************)
\* the withRetry call of a unit ended in one of the three failures: it
\* threw (a non-transient error, or retries exhausted), or it returned text
\* that does not parse to a lesson object
EndedInFailure(r) ==
    \/ r.pc = "thrown"
    \/ r.pc = "returned" /\ r.value.body \in {"garbage", "null"}

RetryCount == maxRetries.tenths \div 10

\* one sleep after each failed attempt so far, none after the current one
OneSleepPerFailedAttempt ==
    rt.pc # "idle" =>
        Len(rt.sleeps) = IF rt.pc = "sleeping" THEN rt.calls ELSE rt.calls - 1

\* the operation fails with a rate-limit error exactly k times, then
\* succeeds, and k < maxRetries
FailsThenSucceeds(k) ==
    /\ Len(script) = k + 1
    /\ \A i \in 1..k : script[i] \in RateLimitOutcomes
    /\ script[k + 1].kind = "ok"
    /\ IntLtNum(k, maxRetries)

\* C7: an operation that fails k < R times with a rate-limit error and
\* then succeeds is invoked k+1 times, withRetry sleeps k times, once after
\* each failed attempt, and it returns the success value without a sleep
\* after the successful attempt.
C7_RetryUntilSuccess ==
    \A k \in 0..(MaxScript - 1) :
        FailsThenSucceeds(k) =>
            /\ rt.calls <= k + 1
            /\ Len(rt.sleeps) <= k
            /\ OneSleepPerFailedAttempt
            /\ rt.pc # "thrown"
            /\ rt.pc = "returned" =>
                 /\ rt.value = script[k + 1]
                 /\ rt.calls = k + 1
                 /\ Len(rt.sleeps) = k

\* two rate-limit failures, then success, returned
C7_Witness ==
    /\ FailsThenSucceeds(2)
    /\ script[1] = ErrRateLimit
    /\ rt.pc = "returned"
    /\ rt.calls = 3

\* the operation always fails with an error that is not rate-limit
\* classified: an Error with another message, or a thrown non-Error
AlwaysNonTransient ==
    \A i \in 1..Len(script) : script[i] \in {ErrBadRequest, Raw429}

\* C8: an operation that always fails with a non-transient error is
\* invoked once and withRetry rejects with that error without sleeping,
\* for every maxRetries >= 0.
C8_NonTransientNotRetried ==
    (AlwaysNonTransient /\ IntLeqNum(0, maxRetries)) =>
        /\ rt.calls <= 1
        /\ rt.sleeps = <<>>
        /\ rt.pc \in {"idle", "calling", "thrown"}
        /\ rt.pc = "thrown" => rt.calls = 1 /\ rt.value = script[1]

\* rejected at once with retries to spare, for an Error and for a thrown
\* string that reads 429
C8_Witness ==
    /\ AlwaysNonTransient
    /\ maxRetries = Int10(6)
    /\ rt.pc = "thrown"
    /\ rt.calls = 1
    /\ rt.value = Raw429

\* the operation always fails with a rate-limit error
AlwaysTransient ==
    \A i \in 1..Len(script) : script[i] \in RateLimitOutcomes

TimeoutWithAttemptsLeft ==
    script[1] = ErrTimeout /\ IntLtNum(0, maxRetries)

\* C10: a timeout is transient: after the timeout of the first invocation,
\* with attempts remaining, withRetry sleeps the backoff delay and retries.
C10_TimeoutRetried ==
    (TimeoutWithAttemptsLeft /\ rt.calls = 1 /\ rt.pc # "calling") =>
        rt.pc = "sleeping"

\* what withRetry does with the timeout instead: isRateLimitError does not
\* match its message, so it is rethrown after the one invocation, without a
\* sleep or a retry
TimeoutRethrownAtOnce ==
    TimeoutWithAttemptsLeft =>
        /\ rt.calls <= 1
        /\ rt.sleeps = <<>>
        /\ rt.pc \in {"idle", "calling", "thrown"}
        /\ rt.pc = "thrown" => rt.calls = 1 /\ rt.value = ErrTimeout

(***************************************************************************)
(* Properties of AgentRuntime.runJson (specification SpecRuntime).         *)
(***************************************************************************)
\* an attempt with this outcome of generateText fails: the service
\* rejected, or its text does not parse to a JSON object
AttemptFails(o) == o.kind # "ok" \/ o.body # "good"

\* the message of the error such an attempt ends with
FailureMessage(o) ==
    CASE o.kind = "error" -> o.msg
      [] o.kind = "raw" -> MsgUnknownRuntimeError
      [] o.body = "null" -> MsgExpectedObject
      [] OTHER -> MsgNoJson

\* the attempts runJson is to make: max(1, retryCount + 1)
EffectiveRetryCount == Coalesce(request.retryCount, config.retryCount)
AllAttemptsFailed(c) ==
    \A i \in 1..Len(c.outcomes) : AttemptFails(c.outcomes[i])

\* C11: in live mode runJson never rejects; when every attempt has failed
\* it resolves with the fallback value and a trace with fallbackUsed,
\* attemptCount = the number of attempts made and errorMessage = the
\* message of the last error; when an attempt succeeds it resolves at once
\* with the parsed value, fallbackUsed = false and that attempt's number.
C11_RunJsonFallsBackAfterAllAttempts ==
    config.mode = "live" =>
        LET c == agentCall
            n == Len(c.outcomes)
        IN /\ c.pc # "rejected"
           /\ c.pc # "resolved" => AllAttemptsFailed(c)
           /\ (c.pc = "resolved" /\ AllAttemptsFailed(c)) =>
                /\ c.made = n
                /\ IntLeqNum(n, MathMax(1, NumPlusInt(EffectiveRetryCount, 1)))
                /\ ~IntLeqNum(n + 1, MathMax(1, NumPlusInt(EffectiveRetryCount, 1)))
                /\ c.data = FallbackData(request)
                /\ c.trace.fallbackUsed
                /\ c.trace.attemptCount = Int10(n)
                /\ c.trace.errorMessage = FailureMessage(c.outcomes[n])
           /\ (c.pc = "resolved" /\ ~AllAttemptsFailed(c)) =>
                /\ c.made = n
                /\ \A i \in 1..(n - 1) : AttemptFails(c.outcomes[i])
                /\ c.data.origin = "parsed"
                /\ c.data.value = JSONparse(ResponseText("good")).toks
                /\ ~c.trace.fallbackUsed
                /\ c.trace.attemptCount = Int10(n)
                /\ c.traceCount = 1

\* what runJson does for every retryCount the configuration admits: it
\* never rejects, makes the attempts 1, 2, ... up to maxAttempts, and the
\* fallback trace records maxAttempts itself, which is the number of
\* attempts made only when retryCount is an integer
RunJsonRecordsMaxAttempts ==
    config.mode = "live" =>
        LET c == agentCall
            n == Len(c.outcomes)
        IN /\ c.pc # "rejected"
           /\ (c.pc = "resolved" /\ AllAttemptsFailed(c)) =>
                /\ c.made = n
                /\ IntLeqNum(n, c.maxAttempts)
                /\ ~IntLeqNum(n + 1, c.maxAttempts)
                /\ c.data = FallbackData(request)
                /\ c.trace.fallbackUsed
                /\ c.trace.attemptCount = c.maxAttempts
                /\ c.trace.errorMessage = FailureMessage(c.outcomes[n])
                /\ c.traceCount = 1
           /\ (c.pc = "resolved" /\ ~AllAttemptsFailed(c)) =>
                /\ ~c.trace.fallbackUsed
                /\ c.trace.attemptCount = Int10(n)
                /\ c.traceCount = 1

(***************************************************************************)
(* Properties of the traces (specifications SpecAgent and SpecEndToEnd).   *)
(***************************************************************************)
\* the calls of runJson in flight or finished and not yet received
OpenCalls == {agentCall} \cup {workers[w].run : w \in DOMAIN workers}

\* the entries of runs for a stage, and for a lesson specification
RunsOf(stage) == SelectSeq(runs, LAMBDA r : r.stage = stage)
RunsOfLesson(i) ==
    SelectSeq(runs, LAMBDA r : r.stage = "lesson_generation" /\ r.index = i)
TracesOf(rs) == [k \in 1..Len(rs) |-> rs[k].trace]

\* C12: every call of runJson yields exactly one trace, whatever its
\* outcome; generateAll collects exactly one trace per lesson
\* specification, in every completion order; a completed run has written
\* the trace log exactly once, after all stages, and the log holds one
\* trace per request of the run (roadmap, chapter decomposition, each
\* lesson, assessment), each as runJson returned it.
C12_OneTracePerUnit ==
    /\ \A c \in OpenCalls :
         /\ c.traceCount <= 1
         /\ c.pc = "resolved" <=> c.traceCount = 1
         /\ c.pc # "rejected"
    /\ \A k \in 1..Len(runs) : runs[k].traceCount = 1
    /\ \A i \in Indices : Len(RunsOfLesson(i)) <= 1
    /\ orch.lessonTraces = TracesOf(RunsOf("lesson_generation"))
    /\ (orch.pc = "lessons" /\ mainPc = "resolved") =>
         /\ Len(orch.lessonTraces) = N
         /\ \A i \in Indices : Len(RunsOfLesson(i)) = 1
    /\ orch.writes <= 1
    /\ orch.pc # "done" => orch.writes = 0 /\ orch.written = <<>>
    /\ orch.pc = "done" =>
         /\ orch.writes = 1
         /\ orch.written = TracesOf(runs)
         /\ Len(orch.written) = N + 3
         /\ Len(RunsOf("roadmap_generation")) = 1
         /\ Len(RunsOf("chapter_decomposition")) = 1
         /\ Len(RunsOf("assessment_generation")) = 1
         /\ \A i \in Indices : Len(RunsOfLesson(i)) = 1

\* a completed run whose lessons finished out of input order, one of them
\* with the fallback, one after a retry
C12_Witness ==
    /\ orch.pc = "done"
    /\ N = 2
    /\ order = <<1, 0>>
    /\ \E k \in 1..Len(orch.written) : orch.written[k].fallbackUsed
    /\ \E k \in 1..Len(orch.written) :
         /\ ~orch.written[k].fallbackUsed
         /\ orch.written[k].attemptCount = Int10(2)

\* the finished run of the unit with input position i + 1
RunOfUnit(i) == RunsOfLesson(i)[1]
GoodLesson(i) ==
    composeGeneratedLesson(
        items[i + 1],
        ParsedData(LessonRequest(items[i + 1]),
                   JSONparse(ResponseText("good")).toks),
        i)

\* C13: five units, concurrency 2, a retry budget of at least 2; the
\* service call of unit #3 fails twice with a rate-limit error and then
\* succeeds, every other call succeeds at once.  Then the finished run
\* holds five results in input order, the trace of unit #3 has
\* attemptCount 3 and no fallback, every other trace attemptCount 1 and no
\* fallback, and unit #3 slept two backoff delays between its first
\* attempt and its success.
C13_EndToEnd ==
    mainPc = "resolved" =>
        /\ N = 5
        /\ DOMAIN results = 0..4
        /\ \A i \in Indices :
             /\ passed[i] = items[i + 1]
             /\ results[i] = GoodLesson(i)
             /\ Len(RunsOfLesson(i)) = 1
             /\ ~RunOfUnit(i).trace.fallbackUsed
             /\ RunOfUnit(i).trace.attemptCount = Int10(IF i = 2 THEN 3 ELSE 1)
             /\ RunOfUnit(i).made = (IF i = 2 THEN 3 ELSE 1)
             /\ Len(RunOfUnit(i).delays) = (IF i = 2 THEN 2 ELSE 0)
             /\ \A k \in 1..Len(RunOfUnit(i).delays) : RunOfUnit(i).delays[k] > 0
        /\ Len(orch.lessonTraces) = 5

\* the run finished, unit #3 after units that were claimed later
C13_Witness ==
    /\ mainPc = "resolved"
    /\ DOMAIN results = 0..4
    /\ order[5] = 2
    /\ RunOfUnit(2).outcomes = <<ErrRateLimit, Err429, Ok("good")>>
    /\ RunOfUnit(2).delays = <<300, 600>>

(***************************************************************************)
(* The checkpoint of generate-lessons (SpecCheckpoint).                    *)
(***************************************************************************)
\* a file JSON.parse rejects, or whose chapters member is no array, or
\* whose chapters array holds an entry that is no chapter object
Malformed(file) ==
    \/ file.kind \in {"invalid", "noarray"}
    \/ /\ file.kind = "json"
       /\ \E i \in DOMAIN file.chapters : file.chapters[i].shape # "chapter"

\* C14: loadExistingLessons never raises, and an absent or a malformed
\* checkpoint file (invalid JSON, or a chapters array or a chapter entry of
\* the wrong shape) yields the empty map, no group being loaded from it
C14_MalformedCheckpointLoadsEmpty ==
    (main.pc \in {"chapter", "done"}
       /\ (hist.loadedFrom.kind = "absent" \/ Malformed(hist.loadedFrom)))
    => main.existingLessons = <<>>

\* the decisions of the current run, and for a decision the units it
\* dispatched, the units of its chapter, and the units whose prior outcome
\* the catch clause of generateLesson built
Decisions == {hist.decisions[k] : k \in DOMAIN hist.decisions}
Dispatched(d) == {d.positions[j] : j \in DOMAIN d.positions}
UnitsOf(d) == DOMAIN course.chapters[d.chapter].subsections
PriorFallbacks(d) == {p \in DOMAIN d.prior : d.prior[p].origin = "fallback"}
\* the text prefix tells the fallbacks of the prior result from the rest
PrefixTellsFallbacks(lessons) ==
    \A p \in DOMAIN lessons :
        isFallbackLesson(lessons[p]) <=> lessons[p].origin = "fallback"

\* C15: a chapter without a prior result dispatches all its units, one
\* whose prior result holds no fallback dispatches none, and otherwise the
\* units dispatched are exactly those whose prior outcome is a fallback
\* (checked here for prior results whose fallbacks the text prefix tells)
C15_DispatchFollowsPriorOutcomes ==
    \A d \in Decisions :
        PrefixTellsFallbacks(d.prior) =>
            Dispatched(d) = IF d.hasPrior THEN PriorFallbacks(d) ELSE UnitsOf(d)

\* C16: with 3 prior outcomes of which exactly 1 is a fallback, the merge of
\* the new outcome for its key leaves the other 2 outcomes unchanged in
\* value and position and replaces the retried one (checked here for prior
\* results whose fallbacks the text prefix tells)
C16_MergeReplacesOnlyTheRetried ==
    LET m == hist.lastMerge
        fallbacks == {p \in DOMAIN m.prior : m.prior[p].origin = "fallback"}
    IN (Len(m.prior) = 3 /\ Cardinality(fallbacks) = 1
          /\ PrefixTellsFallbacks(m.prior))
       => \A p \in DOMAIN m.prior :
              IF p \in fallbacks
              THEN \E j \in DOMAIN m.retried : m.merged[p] = m.retried[j]
              ELSE m.merged[p] = m.prior[p]

\* C17: in the run after a kill, the checkpoint that run loaded holds the
\* result of every group whose save had finished before the kill
C17_CompletedGroupsSurviveKill ==
    (hist.afterKill /\ main.pc \in {"chapter", "done"})
    => \A i \in DOMAIN hist.atKill :
          /\ MapHas(main.existingLessons, hist.atKill[i].key)
          /\ MapGet(main.existingLessons, hist.atKill[i].key).lessons
               = hist.atKill[i].value.lessons

\* C18: a unit whose persisted outcome was built from a successfully parsed
\* response is never re-queued, whatever its text (checked here for units
\* whose identity key no other unit of the chapter shares)
KeyIsUnique(d, p) ==
    \A q \in DOMAIN d.prior :
        LessonKey(d.prior[q]) = LessonKey(d.prior[p]) => q = p
C18_ParsedOutcomeNeverRequeued ==
    \A d \in Decisions :
        \A p \in Dispatched(d) :
            (d.hasPrior /\ KeyIsUnique(d, p)) => d.prior[p].origin # "parsed"

(***************************************************************************)
(* The recovery parsers (SpecParse).                                       *)
(***************************************************************************)
\* C19: for every structured value, strings with code-fence markers or
\* braces and arrays of objects included, each of parseJsonFromModelText
\* and parseJsonResponse returns, for the serialized text of the value, a
\* value equal to it
C19_ParserRoundTrip ==
    (px.done /\ px.writing = "serialized")
    => (~px.result.threw /\ px.result.value = px.value)

\* C20: for a text that is valid JSON except for single backslashes before
\* letters outside the valid escapes, parseJsonResponse does not fail
C20_InvalidEscapesDoNotFail ==
    (px.done /\ px.fn = "parseJsonResponse" /\ px.writing = "unescaped")
    => ~px.result.threw

\* the braces and brackets of a text left open outside its string literals
Unclosed(text) ==
    OpenCount(text, 1, FALSE, FALSE, [braces |-> 0, brackets |-> 0])

\* C21: for a serialized object or array cut off inside a string literal,
\* repairTruncatedJson returns a text that parses as JSON and in which,
\* outside string literals, as many brackets and braces close as open
C21_RepairYieldsValidJson ==
    (px.done /\ px.fn = "repairTruncatedJson")
    => /\ JSONparse(px.result.value).ok
       /\ Unclosed(px.result.value) = [braces |-> 0, brackets |-> 0]

(***************************************************************************)
(* Runs of generate-lessons (SpecCheckpoint), continued.                   *)
(***************************************************************************)
\* C22: when a run of main has reached its end, the checkpoint file exists
C22_RunEndsWithCheckpoint == main.pc = "done" => disk.kind # "absent"

(***************************************************************************)
(* The runners (Spec), continued.                                          *)
(***************************************************************************)
\* C23: in the scripts' runner no worker waits the pacing delay before the
\* first unit it claims
C23_NoWaitBeforeFirstClaim ==
    variant = "local"
    => \A w \in DOMAIN workers :
           workers[w].claims = 1 => workers[w].waits = <<>>

(***************************************************************************)
(* The runner as a queue (SpecPull).                                       *)
(***************************************************************************)
HasNever == \E i \in DOMAIN items : items[i] = SubNever
OthersCompleted ==
    \A i \in Indices :
        items[i + 1] # SubNever
        => \E k \in DOMAIN order : order[k] = i

\* C24: with concurrency >= 2 and one unit whose handler never completes,
\* every other unit is eventually claimed and its handler completes, and
\* the join of the run never settles
C24_OtherUnitsComplete ==
    /\ <>OthersCompleted
    /\ [](HasNever => mainPc \notin {"resolved", "rejected"})
C24_Witness ==
    /\ N = 3
    /\ mainPc = "join"
    /\ OthersCompleted
    /\ \E w \in DOMAIN workers :
          /\ workers[w].pc = "mapper"
          /\ items[workers[w].idx + 1] = SubNever
          /\ \E v \in DOMAIN workers : v # w /\ workers[v].claims = 2

(***************************************************************************)
(* The writes of the checkpoint (SpecCheckpoint).                          *)
(***************************************************************************)
\* the decisions of the current run whose chapter has been completed
CompletedDecisions ==
    {hist.decisions[k] :
        k \in {j \in DOMAIN hist.decisions :
                 /\ hist.decisions[j].mode \in {"RunAll", "RetryOnly"}
                 /\ ~(main.pc = "chapter" /\ j = Len(hist.decisions))}}
FileEntries == {disk.chapters[i] : i \in DOMAIN disk.chapters}
\* the file holds, for the chapter of decision d, the entry main has set,
\* with the lessons of a new chapter in the order of its subsections
HoldsResultOf(d) ==
    LET chapter == course.chapters[d.chapter]
        entry == MapGet(main.allResults, ChapterKeyOf(chapter))
    IN /\ entry \in FileEntries
       /\ d.mode = "RunAll"
          => /\ Len(entry.lessons) = Len(chapter.subsections)
             /\ \A i \in DOMAIN entry.lessons :
                    LessonKey(entry.lessons[i]) = SubKey(chapter.subsections[i])
NoHandlerInFlight ==
    /\ mainPc = "resolved"
    /\ \A w \in DOMAIN workers : workers[w].pc = "done"

\* C25: the checkpoint file is written only when no unit handler is in
\* flight, and while a run lasts the file holds the result of every
\* chapter the run has completed so far, whatever the order in which the
\* units of a chapter completed
C25_WritesBetweenGroups ==
    /\ [][disk' # disk => NoHandlerInFlight]_vars
    /\ [](main.pc \in {"chapter", "done"}
            => \A d \in CompletedDecisions : HoldsResultOf(d))
C25_Witness ==
    /\ main.pc = "chapter"
    /\ mainPc = "resolved"
    /\ Cardinality(CompletedDecisions) = 1
    /\ disk.kind = "json"
    /\ \E k \in DOMAIN order : k > 1 /\ order[k] < order[k - 1]

\* the subsections of every chapter have pairwise distinct identity keys
DistinctKeys ==
    \A c \in DOMAIN course.chapters :
        \A i, j \in DOMAIN course.chapters[c].subsections :
            SubKey(course.chapters[c].subsections[i])
              = SubKey(course.chapters[c].subsections[j]) => i = j
FallbackCount(lessons) ==
    Cardinality({i \in DOMAIN lessons : isFallbackLesson(lessons[i])})

\* C26: for a course with distinct identity keys, from one finished write of
\* the checkpoint to the next the number of lessons of a chapter that
\* isFallbackLesson selects never increases, and a lesson written as no
\* fallback is never replaced
C26_FallbacksNeverIncrease ==
    DistinctKeys
    => \A i \in DOMAIN hist.before : \A j \in DOMAIN hist.saved :
          hist.before[i].key = hist.saved[j].key
          => LET old == hist.before[i].value.lessons
                 new == hist.saved[j].value.lessons
             IN /\ FallbackCount(new) <= FallbackCount(old)
                /\ \A p \in DOMAIN old :
                      ~isFallbackLesson(old[p])
                      => (p \in DOMAIN new /\ new[p] = old[p])

\* the lessons generateLesson can resolve with for a subsection
LessonsFor(sub) ==
    {FallbackLesson(sub)}
    \cup {LessonFrom(sub, parseJsonResponse(trim(ResponseText(o.body)))).lesson :
            o \in {c \in CheckpointOutcomes : c.kind = "ok"}}
ChapterOf(entry) ==
    CHOOSE c \in DOMAIN course.chapters :
        ChapterKeyOf(course.chapters[c]) = ChapterKeyOf(entry)

\* C27: every chapter stored in the checkpoint holds one lesson per
\* subsection of the chapter, in subsection order: lesson i is a lesson of
\* subsection i
C27_OneLessonPerSubsection ==
    \A e \in DOMAIN disk.chapters :
        disk.chapters[e].shape = "chapter"
        => LET lessons == disk.chapters[e].lessons
               subs == course.chapters[ChapterOf(disk.chapters[e])].subsections
           IN /\ Len(lessons) = Len(subs)
              /\ \A i \in DOMAIN lessons : lessons[i] \in LessonsFor(subs[i])

\* C28: for every concurrency that passes the validation of the utils copy
\* and every non-empty items list, at least one worker is started, and when
\* the call has resolved the mapper was invoked exactly once for every item
\* and every slot holds the mapper's value for that item
C28_ValidConcurrencyMapsEveryItem ==
    (variant = "utils" /\ ValidConcurrency(concurrency) /\ N > 0)
    => /\ mainPc # "idle" => DOMAIN workers # {}
       /\ mainPc = "resolved"
          => \A i \in Indices : /\ invoked[i] = 1
                                /\ results[i] # EmptySlot
                                /\ results[i] = returned[i]

\* worker w's mapper call settles in this step, by rejecting or resolving
RejectsNow(w) == workers[w].pc = "mapper" /\ workers'[w].pc = "failed"
ResolvesNow(w) ==
    /\ workers[w].pc = "mapper"
    /\ workers'[w] # workers[w]
    /\ workers'[w].pc # "failed"

\* C29: when a mapper invocation rejects, the call rejects only through a
\* failed worker and that worker claims no further index, but nothing is
\* cancelled: the rejection leaves the cursor and the other workers alone,
\* a worker only ends at an exhausted cursor, and a worker whose mapper
\* resolves after the call has rejected still claims the next index (and,
\* in the utils copy, invokes the mapper for it)
C29_RejectionDoesNotCancel ==
    /\ [](mainPc = "rejected" /\ workers # <<>>
          => \E w \in DOMAIN workers : workers[w].pc = "failed")
    /\ [](\A w \in DOMAIN workers : workers[w].pc = "done" => cursor >= N)
    /\ [][\A w \in DOMAIN workers :
            /\ workers[w].pc = "failed" => workers'[w] = workers[w]
            /\ RejectsNow(w)
               => /\ cursor' = cursor
                  /\ \A v \in DOMAIN workers \ {w} : workers'[v] = workers[v]
            /\ (ResolvesNow(w) /\ mainPc = "rejected" /\ cursor < N)
               => /\ cursor' = cursor + 1
                  /\ workers'[w].idx = cursor
                  /\ workers'[w].claims = workers[w].claims + 1
                  /\ variant = "utils"
                     => /\ workers'[w].pc = "mapper"
                        /\ invoked'[cursor] = invoked[cursor] + 1]_vars
\* the call has rejected while another worker's mapper is pending and the
\* cursor is not exhausted
C29_Witness ==
    /\ variant = "utils"
    /\ mainPc = "rejected"
    /\ cursor < N
    /\ \E w, v \in DOMAIN workers :
          /\ workers[w].pc = "failed"
          /\ workers[v].pc = "mapper"

\* C30: for every maxRetries withRetry can receive it has invoked the
\* operation at least once when it settles, and when it rejects it rejects
\* with an error that an invocation of the operation threw
C30_RetryCallsAtLeastOnce ==
    rt.pc \in {"returned", "thrown"}
    => /\ rt.calls >= 1
       /\ rt.pc = "thrown"
          => \E c \in 1..rt.calls : rt.value = ScriptAt(script, c)

====
